---------------------------- MODULE Spec2Model ----------------------------
(***************************************************************************)
(* A model of frameport: frames (IFrame / FrameBase), their callback       *)
(* engine, ports (PortBase) and the FrameBus.                              *)
(*                                                                         *)
(* Caller threads run the public operations one step at a time; a step     *)
(* ends where the code takes a lock, waits, or returns.  Every Threaded    *)
(* subscription owns a worker thread, modelled by the Worker* actions.     *)
(* The data block of a frame is a sequence of FrameSize cells, one per     *)
(* registered signal (MyData: value, timestamp).                           *)
(***************************************************************************)
EXTENDS Integers, Sequences, FiniteSets, TLC

\* ------------------------------------------------------------------ bounds
\* Operations started in one run.
MaxOps == 4
\* Signal values range over 0..MaxVal.
MaxVal == 1

\* --------------------------------------------------------------- constants
Null == "null"
Threads == {"t1", "t2"}
Ports == {"P", "Q"}
Names == {"A", "B"}
Frames == {"f1", "f2"}
Vals == 0..MaxVal
\* Callback ids one run can hand out: one per operation at most.
Ids == 1..MaxOps

\* enum class CallbackPolicy
Direct == "Direct"
Threaded == "Threaded"

\* struct MyData { int value; double timestamp; }: one cell per field.
FrameSize == 2
\* registerSignal("value", ...), registerSignal("timestamp", ...): the cell a
\* signal name is bound to, and the field's type.
SignalNames == {"value", "timestamp"}
SignalCell(s) == IF s = "value" THEN 1 ELSE 2
SignalType(s) == IF s = "value" THEN "int" ELSE "double"
\* FrameBase's constructor: memset(&data_, 0, sizeof(DataT)).
ZeroData == [i \in 1..FrameSize |-> 0]

VARIABLES
    bus,        \* FrameBus::frames_ : name -> frame or Null
    pframes,    \* PortBase::frames_ : port -> name -> frame or Null
    pcbmap,     \* PortBase::callback_map_ : port -> (id -> frame)
    fstate,     \* frame -> "live" | "dead" (destroyed)
    data,       \* FrameBase::data_
    rwlock,     \* FrameBase::data_rwlock_ : [w: writer or Null, r: set of readers]
    callbacks,  \* IFrame::callbacks_ : sequence of [id, policy]
    nextId,     \* IFrame::nextCallbackId_
    cbMutex,    \* IFrame::cb_mutex_ : the thread holding it, or Null
    wk,         \* frame -> (id -> ThreadedData and its worker thread)
    th,         \* caller thread -> its position and locals
    ops,        \* operations started so far
    issued,     \* history: frame -> the ids fetch_add handed out, in order
    reg,        \* history: frame -> ids in the order their entries were pushed
    psubs,      \* history: port -> {<<frame, id>>} it subscribed and did not yet unsubscribe
    gone        \* history: port -> the ids of the subscriptions it has unsubscribed

vars == <<bus, pframes, pcbmap, fstate, data, rwlock, callbacks, nextId,
          cbMutex, wk, th, ops, issued, reg, psubs, gone>>

\* ------------------------------------------------------------------ helpers
EmptyMap == [x \in {} |-> Null]
MapPut(m, k, v) == [x \in DOMAIN m \cup {k} |-> IF x = k THEN v ELSE m[x]]
MapDel(m, k) == [x \in DOMAIN m \ {k} |-> m[x]]
Range(s) == {s[i] : i \in DOMAIN s}
IsPrefix(s, t) == Len(s) <= Len(t) /\ SubSeq(t, 1, Len(s)) = s
RemoveHead(s, i) == Tail(s)
RemoveAt(s, i) == SubSeq(s, 1, i - 1) \o SubSeq(s, i + 1, Len(s))

\* A caller thread at rest.
IdleRec == [pc |-> "idle", op |-> "none", port |-> Null, f |-> Null, id |-> 0,
            idx |-> 0, policy |-> Null, res |-> Null, dtor |-> FALSE,
            called |-> <<>>, expect |-> <<>>, pushed |-> <<>>,
            sig |-> Null, val |-> 0, clean |-> FALSE, target |-> Null,
            dup |-> FALSE, name |-> Null, onBus |-> TRUE, during |-> FALSE,
            inner |-> Null, locked |-> TRUE, expectT |-> <<>>, buf |-> <<>>,
            torn |-> FALSE, arg |-> Null, old |-> <<>>, err |-> Null]

\* A fresh ThreadedData with its worker started (addSnapshotCallback).  enq, dlv,
\* mark and left are history: every snapshot pushed, every snapshot handed to the
\* callback, the number pushed when stop was first set, and the number still
\* queued then.
NewWorker == [state |-> "waiting", queue |-> <<>>, stop |-> FALSE, cur |-> <<>>,
              joinable |-> TRUE, joins |-> 0,
              enq |-> <<>>, dlv |-> <<>>, mark |-> 0, left |-> 0, inner |-> 0]

\* The position of the entry with this id in callbacks_, 0 when there is none
\* (the loop of removeCallback).
FindEntry(f, id) ==
    IF \E i \in 1..Len(callbacks[f]) : callbacks[f][i].id = id
    THEN CHOOSE i \in 1..Len(callbacks[f]) :
            /\ callbacks[f][i].id = id
            /\ \A j \in 1..(i - 1) : callbacks[f][j].id # id
    ELSE 0
Registered(f, id) == FindEntry(f, id) # 0

\* std::shared_lock / std::unique_lock on data_rwlock_ can be taken.
CanReadAnytime(f) == TRUE
CanRead(f) == rwlock[f].w = Null
CanWrite(f) == rwlock[f].w = Null /\ rwlock[f].r = {}

\* The default serializer_: a copy of the data block.
Serialize(f) == data[f]

\* Everything that holds a shared_ptr to frame f.
Holders(f) ==
    {<<"bus", n>> : n \in {m \in Names : bus[m] = f}}
    \cup {<<"port", x[1], x[2]>> : x \in {y \in Ports \X Names : pframes[y[1]][y[2]] = f}}
    \cup UNION {{<<"cbmap", p, i>> : i \in {j \in DOMAIN pcbmap[p] : pcbmap[p][j] = f}} : p \in Ports}
    \cup {<<"thread", t>> : t \in {u \in Threads : th[u].pc # "idle" /\ th[u].f = f}}

\* ------------------------------------------------------------------- Init
\* The state after main's setup: both frames constructed and registered on the
\* bus under their names, ports constructed and not yet connected.
InitFrames ==
    /\ bus = [n \in Names |-> IF n = "A" THEN "f1" ELSE "f2"]
    /\ fstate = [f \in Frames |-> "live"]
    /\ data = [f \in Frames |-> ZeroData]
    /\ rwlock = [f \in Frames |-> [w |-> Null, r |-> {}]]
    /\ callbacks = [f \in Frames |-> <<>>]
    /\ nextId = [f \in Frames |-> 1]
    /\ cbMutex = [f \in Frames |-> Null]
    /\ wk = [f \in Frames |-> EmptyMap]
    /\ th = [t \in Threads |-> IdleRec]
    /\ ops = 0
    /\ issued = [f \in Frames |-> <<>>]
    /\ reg = [f \in Frames |-> <<>>]
    /\ psubs = [p \in Ports |-> {}]
    /\ gone = [p \in Ports |-> {}]
    /\ pcbmap = [p \in Ports |-> EmptyMap]

Init ==
    /\ InitFrames
    /\ pframes = [p \in Ports |-> [n \in Names |-> Null]]

\* The state after every port has connected to both frames (connectFrame).
InitConnected ==
    /\ InitFrames
    /\ pframes = [p \in Ports |-> bus]

\* The state after both ports have connected to frame "A" only and port "Q" has
\* subscribed to it twice: subscribeFrameDirect returned 1, subscribeFrame 2.
InitSubscribed ==
    /\ bus = [n \in Names |-> IF n = "A" THEN "f1" ELSE "f2"]
    /\ pframes = [p \in Ports |-> [n \in Names |-> IF n = "A" THEN "f1" ELSE Null]]
    /\ fstate = [f \in Frames |-> "live"]
    /\ data = [f \in Frames |-> ZeroData]
    /\ rwlock = [f \in Frames |-> [w |-> Null, r |-> {}]]
    /\ callbacks = [f \in Frames |->
                      IF f = "f1" THEN <<[id |-> 1, policy |-> Direct],
                                         [id |-> 2, policy |-> Threaded]>>
                      ELSE <<>>]
    /\ nextId = [f \in Frames |-> IF f = "f1" THEN 3 ELSE 1]
    /\ cbMutex = [f \in Frames |-> Null]
    /\ wk = [f \in Frames |-> IF f = "f1" THEN MapPut(EmptyMap, 2, NewWorker) ELSE EmptyMap]
    /\ th = [t \in Threads |-> IdleRec]
    /\ ops = 0
    /\ issued = [f \in Frames |-> IF f = "f1" THEN <<1, 2>> ELSE <<>>]
    /\ reg = [f \in Frames |-> IF f = "f1" THEN <<1, 2>> ELSE <<>>]
    /\ psubs = [p \in Ports |-> IF p = "Q" THEN {<<"f1", 1>>, <<"f1", 2>>} ELSE {}]
    /\ gone = [p \in Ports |-> {}]
    /\ pcbmap = [p \in Ports |->
                   IF p = "Q" THEN MapPut(MapPut(EmptyMap, 1, "f1"), 2, "f1")
                   ELSE EmptyMap]

\* --------------------------------------------------------- worker threads
\* The worker's loop body up to the callback: wait until stop or a non-empty
\* queue, pop the front, and call cb unless the snapshot is empty.
WorkerLast(q) == q[Len(q)]
WorkerNext(q) == Head(q)
WorkerRest(q) == Tail(q)

WorkerTake(f, id) ==
    /\ id \in DOMAIN wk[f]
    /\ wk[f][id].state = "waiting"
    /\ wk[f][id].queue # <<>>
    /\ LET w == wk[f][id]
           snap == WorkerNext(w.queue)
       IN wk' = [wk EXCEPT ![f][id] =
                    IF snap # <<>>
                    THEN [w EXCEPT !.queue = WorkerRest(w.queue), !.state = "running",
                                   !.cur = snap, !.dlv = Append(@, snap)]
                    ELSE [w EXCEPT !.queue = WorkerRest(w.queue)]]
    /\ UNCHANGED <<bus, pframes, pcbmap, fstate, data, rwlock, callbacks, nextId,
                   cbMutex, th, ops, issued, reg, psubs, gone>>

\* The subscriber's callback returns.
WorkerReturn(f, id) ==
    /\ id \in DOMAIN wk[f]
    /\ wk[f][id].state = "running"
    /\ wk' = [wk EXCEPT ![f][id].state = "waiting", ![f][id].cur = <<>>,
                        ![f][id].inner = 0]
    /\ UNCHANGED <<bus, pframes, pcbmap, fstate, data, rwlock, callbacks, nextId,
                   cbMutex, th, ops, issued, reg, psubs, gone>>

\* The subscriber's callback, running on the worker thread, calls
\* addCallback(cb, Direct) on the frame it is subscribed to: the fetch_add, then
\* the worker waits for cb_mutex_.
WorkerCallsAdd(f, id) ==
    /\ id \in DOMAIN wk[f]
    /\ wk[f][id].state = "running"
    /\ wk[f][id].inner = 0
    /\ nextId[f] <= MaxOps
    /\ nextId' = [nextId EXCEPT ![f] = @ + 1]
    /\ issued' = [issued EXCEPT ![f] = Append(@, nextId[f])]
    /\ wk' = [wk EXCEPT ![f][id].state = "cb_lock", ![f][id].inner = nextId[f]]
    /\ UNCHANGED <<bus, pframes, pcbmap, fstate, data, rwlock, callbacks, cbMutex,
                   th, ops, reg, psubs, gone>>

\* The worker gets cb_mutex_, pushes the entry and returns into the callback.
WorkerAddPush(f, id) ==
    /\ id \in DOMAIN wk[f]
    /\ wk[f][id].state = "cb_lock"
    /\ cbMutex[f] = Null
    /\ callbacks' = [callbacks EXCEPT
                        ![f] = Append(@, [id |-> wk[f][id].inner, policy |-> Direct])]
    /\ reg' = [reg EXCEPT ![f] = Append(@, wk[f][id].inner)]
    /\ wk' = [wk EXCEPT ![f][id].state = "running"]
    /\ UNCHANGED <<bus, pframes, pcbmap, fstate, data, rwlock, nextId, cbMutex,
                   th, ops, issued, psubs, gone>>

\* if (stop && queue.empty()) break;
WorkerQuits(w) == w.stop
WorkerLeavesOne(w) == w.stop /\ Len(w.queue) <= 1
WorkerSleepsOn(w) == FALSE
WorkerMayExit(w) == w.stop /\ w.queue = <<>>

WorkerExit(f, id) ==
    /\ id \in DOMAIN wk[f]
    /\ wk[f][id].state = "waiting"
    /\ WorkerMayExit(wk[f][id])
    /\ wk' = [wk EXCEPT ![f][id].state = "exited"]
    /\ UNCHANGED <<bus, pframes, pcbmap, fstate, data, rwlock, callbacks, nextId,
                   cbMutex, th, ops, issued, reg, psubs, gone>>


\* ---------------------------------------------------------- caller threads
CanStart(t) == th[t].pc = "idle" /\ ops < MaxOps

\* FrameBus::getFrame(name): the frame registered under the name, or Null.
GetFrame(n) == bus[n]

\* Another thread's writeRawData block has written some cells of frame f and not
\* yet all of them.
MidWrite(t, f) ==
    \E u \in Threads \ {t} :
        /\ th[u].pc = "wr_block"
        /\ th[u].f = f
        /\ 1 < th[u].idx
        /\ th[u].idx <= FrameSize

\* After a write of frame f by thread t: t's record becomes rec, and every other
\* thread working on f has seen a later write than its own.
Wrote(t, f, rec) ==
    [u \in Threads |->
        IF u = t THEN rec
        ELSE IF th[u].f = f THEN [th[u] EXCEPT !.clean = FALSE]
        ELSE th[u]]

\* The elements of s that are in S, in the order of s.
FilterSeq(s, S) ==
    LET F[i \in 0..Len(s)] ==
            IF i = 0 THEN <<>>
            ELSE IF s[i] \in S THEN Append(F[i - 1], s[i]) ELSE F[i - 1]
    IN F[Len(s)]

EntryIds(f) == {callbacks[f][i].id : i \in 1..Len(callbacks[f])}
DirectIds(f) ==
    {callbacks[f][i].id : i \in {j \in 1..Len(callbacks[f]) : callbacks[f][j].policy = Direct}}
ThreadedIds(f) ==
    {callbacks[f][i].id : i \in {j \in 1..Len(callbacks[f]) : callbacks[f][j].policy = Threaded}}

\* ---- addCallback / addSnapshotCallback ----------------------------------
\* nextCallbackId_.fetch_add(1): the value it returns.
ReusedId(f) == Len(callbacks[f]) + 1
FetchAddId(f) == nextId[f]

\* callbacks_.push_back(entry)
PushBack(list, e) == Append(list, e)

\* Where a subscribe continues after its entry is pushed: a port records the id.
AfterPush(t) == IF th[t].port # Null THEN "ps_record" ELSE "ret"

\* IFrame::addCallback(cb, policy), up to the fetch_add.
StartAddCallback(t, n, policy) ==
    /\ CanStart(t)
    /\ GetFrame(n) # Null
    /\ LET f == GetFrame(n) IN
        /\ nextId' = [nextId EXCEPT ![f] = @ + 1]
        /\ issued' = [issued EXCEPT ![f] = Append(@, FetchAddId(f))]
        /\ th' = [th EXCEPT ![t] = [IdleRec EXCEPT !.pc = "ac_push", !.op = "addCallback",
                                        !.f = f, !.id = FetchAddId(f), !.policy = policy]]
    /\ ops' = ops + 1
    /\ UNCHANGED <<bus, pframes, pcbmap, fstate, data, rwlock, callbacks, cbMutex,
                   wk, reg, psubs, gone>>

\* CallbackPolicy policy = CallbackPolicy::Threaded in addCallback's declaration.
DefaultPolicy == Threaded

\* if (policy == CallbackPolicy::Threaded) throw std::logic_error(...)
RejectsNoPolicy(policy) == FALSE
RejectsPolicy(policy) == policy = Threaded

\* addCallback under cb_mutex_: throw for Threaded, else push the entry.
AddCallbackPush(t) ==
    /\ th[t].pc = "ac_push"
    /\ cbMutex[th[t].f] = Null
    /\ LET f == th[t].f
           id == th[t].id
       IN IF RejectsPolicy(th[t].policy)
          THEN /\ th' = [th EXCEPT ![t].pc = "ret", ![t].res = "logic_error",
                                   ![t].err = "MisuseError"]
               /\ UNCHANGED <<callbacks, reg>>
          ELSE /\ callbacks' = [callbacks EXCEPT
                                  ![f] = PushBack(@, [id |-> id, policy |-> Direct])]
               /\ reg' = [reg EXCEPT ![f] = Append(@, id)]
               /\ th' = [th EXCEPT ![t].pc = AfterPush(t), ![t].res = id]
    /\ UNCHANGED <<bus, pframes, pcbmap, fstate, data, rwlock, nextId, cbMutex,
                   wk, ops, issued, psubs, gone>>

\* IFrame::addSnapshotCallback(cb), up to the fetch_add.
StartAddSnapshotCallback(t, n) ==
    /\ CanStart(t)
    /\ GetFrame(n) # Null
    /\ LET f == GetFrame(n) IN
        /\ nextId' = [nextId EXCEPT ![f] = @ + 1]
        /\ issued' = [issued EXCEPT ![f] = Append(@, FetchAddId(f))]
        /\ th' = [th EXCEPT ![t] = [IdleRec EXCEPT !.pc = "as_push",
                                        !.op = "addSnapshotCallback",
                                        !.f = f, !.id = FetchAddId(f), !.policy = Threaded]]
    /\ ops' = ops + 1
    /\ UNCHANGED <<bus, pframes, pcbmap, fstate, data, rwlock, callbacks, cbMutex,
                   wk, reg, psubs, gone>>

\* addSnapshotCallback under cb_mutex_: start the worker, push the entry.
AddSnapshotPush(t) ==
    /\ th[t].pc = "as_push"
    /\ cbMutex[th[t].f] = Null
    /\ LET f == th[t].f
           id == th[t].id
       IN /\ wk' = [wk EXCEPT ![f] = MapPut(@, id, NewWorker)]
          /\ callbacks' = [callbacks EXCEPT
                              ![f] = PushBack(@, [id |-> id, policy |-> Threaded])]
          /\ reg' = [reg EXCEPT ![f] = Append(@, id)]
          /\ th' = [th EXCEPT ![t].pc = AfterPush(t), ![t].res = id]
    /\ UNCHANGED <<bus, pframes, pcbmap, fstate, data, rwlock, nextId, cbMutex,
                   ops, issued, psubs, gone>>

\* ---- notifyCallbacks ----------------------------------------------------
\* IFrame::notifyCallbacks() called on its own.
StartNotify(t, n) ==
    /\ CanStart(t)
    /\ GetFrame(n) # Null
    /\ th' = [th EXCEPT ![t] = [IdleRec EXCEPT !.pc = "nf_lock", !.op = "notifyCallbacks",
                                    !.f = GetFrame(n)]]
    /\ ops' = ops + 1
    /\ UNCHANGED <<bus, pframes, pcbmap, fstate, data, rwlock, callbacks, nextId,
                   cbMutex, wk, issued, reg, psubs, gone>>

\* setters_.find(name) != setters_.end(), and the same for getters_.
HasAnySignal(s) == TRUE
HasSignal(s) == s \in SignalNames

\* The setter registerSignal stores: any_cast<Field>(v) succeeds.
SetterAcceptsAll(s, any) == TRUE
SetterAccepts(s, any) == any.type = SignalType(s)
WriteSignalElsewhere(d, s, v) == [d EXCEPT ![FrameSize + 1 - SignalCell(s)] = v]
WriteSignal(d, s, v) == [d EXCEPT ![SignalCell(s)] = v]

\* What the caller sees of an exception the frame throws: PortBase's set
\* operations catch (...) and return false, the frame's own let it through.
ThrownOut(rec, err) == err
Thrown(rec, err) == IF rec.port # Null THEN "false" ELSE err

\* Where setSignal (publish FALSE) and setSignalWithPublish (publish TRUE) go
\* after the setter returned.
AfterWriteNotify(publish) == "nf_lock"
AfterWrite(publish) == IF publish THEN "nf_lock" ELSE "ret"

\* setSignal / setSignalWithPublish up to the return of the setter: the thread's
\* next record.  The write itself is done by the caller of this operator.
SetSignalOutcome(rec, s, any, next) ==
    LET r == [rec EXCEPT !.sig = s, !.arg = any, !.old = data[rec.f]] IN
    IF ~HasSignal(s)
    THEN [r EXCEPT !.pc = "ret", !.res = Thrown(rec, "UnknownSignal"),
                   !.err = "UnknownSignal"]
    ELSE IF ~SetterAccepts(s, any)
    THEN [r EXCEPT !.pc = "ret", !.res = Thrown(rec, "TypeMismatch"),
                   !.err = "TypeMismatch"]
    ELSE [r EXCEPT !.pc = next, !.res = "ok", !.val = any.v, !.clean = TRUE]

SetSignalWrites(s, any) == HasSignal(s) /\ SetterAccepts(s, any)

\* setSignal (publish FALSE) or setSignalWithPublish (publish TRUE) on frame f,
\* up to the return of the setter; rec is the calling thread's record.
SetSignalOn(t, f, s, any, rec, publish) ==
    LET next == AfterWrite(publish) IN
    /\ HasSignal(s) => CanWrite(f)
    /\ IF SetSignalWrites(s, any)
       THEN /\ data' = [data EXCEPT ![f] = WriteSignal(@, s, any.v)]
            /\ th' = Wrote(t, f, SetSignalOutcome(rec, s, any, next))
       ELSE /\ UNCHANGED data
            /\ th' = [th EXCEPT ![t] = SetSignalOutcome(rec, s, any, next)]
    /\ ops' = ops + 1
    /\ UNCHANGED <<bus, pframes, pcbmap, fstate, rwlock, callbacks, nextId,
                   cbMutex, wk, issued, reg, psubs, gone>>

\* IFrame::setSignalWithPublish(name, value), up to the call of notifyCallbacks.
StartSetSignalWithPublish(t, n, s, any) ==
    /\ CanStart(t)
    /\ GetFrame(n) # Null
    /\ SetSignalOn(t, GetFrame(n), s, any,
                   [IdleRec EXCEPT !.op = "setSignalWithPublish", !.f = GetFrame(n)], TRUE)

\* IFrame::setSignal(name, value).
StartSetSignal(t, n, s, any) ==
    /\ CanStart(t)
    /\ GetFrame(n) # Null
    /\ SetSignalOn(t, GetFrame(n), s, any,
                   [IdleRec EXCEPT !.op = "setSignal", !.f = GetFrame(n)], FALSE)

\* notifyCallbacks takes cb_mutex_.
NotifyLock(t) ==
    /\ th[t].pc = "nf_lock"
    /\ cbMutex[th[t].f] = Null
    /\ cbMutex' = [cbMutex EXCEPT ![th[t].f] = t]
    /\ th' = [th EXCEPT ![t].pc = "nf_loop", ![t].idx = 1,
                        ![t].expect = FilterSeq(reg[th[t].f], DirectIds(th[t].f)),
                        ![t].expectT = FilterSeq(reg[th[t].f], ThreadedIds(th[t].f))]
    /\ UNCHANGED <<bus, pframes, pcbmap, fstate, data, rwlock, callbacks, nextId,
                   wk, ops, issued, reg, psubs, gone>>

\* The entry the for loop of notifyCallbacks visits in its k-th round.
NotifyEntryReversed(f, k) == callbacks[f][Len(callbacks[f]) + 1 - k]
NotifyEntry(f, k) == callbacks[f][k]

\* queue.push(snapshot)
QueuePushZero(q, snap) == Append(q, ZeroData)
QueuePushFront(q, snap) == <<snap>> \o q
QueuePush(q, snap) == Append(q, snap)

\* The worker of a subscription holds threadedData->mtx.  It takes the mutex for
\* the wait and the pop, one step of the worker here, and releases it before it
\* calls cb: between two steps it never holds it.
QueueLockedInCallback(w) == w.state = "running"
QueueLocked(w) == FALSE

\* One round of the loop: a Direct entry's callback runs here (it reads the frame
\* under the shared lock, as the port's wrapper does); a Threaded entry gets
\* serialize() pushed on its queue.
NotifyStep(t) ==
    /\ th[t].pc = "nf_loop"
    /\ th[t].idx <= Len(callbacks[th[t].f])
    /\ CanRead(th[t].f)
    /\ LET f == th[t].f
           e == NotifyEntry(f, th[t].idx)
       IN IF e.policy = Direct
          THEN /\ th' = [th EXCEPT ![t].idx = @ + 1, ![t].called = Append(@, e.id),
                                   ![t].torn = @ \/ MidWrite(t, f)]
               /\ UNCHANGED wk
          ELSE /\ ~QueueLocked(wk[f][e.id])
               /\ wk' = [wk EXCEPT ![f][e.id].queue = QueuePush(@, Serialize(f)),
                                   ![f][e.id].enq = Append(@, Serialize(f))]
               /\ th' = [th EXCEPT ![t].idx = @ + 1,
                                   ![t].pushed = Append(@, <<e.id, Serialize(f)>>),
                                   ![t].torn = @ \/ MidWrite(t, f),
                                   ![t].during = @ \/ wk[f][e.id].state = "running"]
    /\ UNCHANGED <<bus, pframes, pcbmap, fstate, data, rwlock, callbacks, nextId,
                   cbMutex, ops, issued, reg, psubs, gone>>

\* What a Direct callback may call on the frame it is invoked for.
InnerOps == {"addCallback", "addSnapshotCallback", "removeCallback", "notifyCallbacks",
             "setSignalWithPublish"}

\* One round of the loop at a Direct entry whose callback calls an operation of
\* the same frame: entry.cb(*this) runs the operation up to its lock of cb_mutex_,
\* which the thread holds since notifyCallbacks took it.  addCallback and
\* addSnapshotCallback have done their fetch_add by then, setSignalWithPublish
\* its write.
NotifyReenter(t, inner) ==
    /\ th[t].pc = "nf_loop"
    /\ th[t].idx <= Len(callbacks[th[t].f])
    /\ NotifyEntry(th[t].f, th[t].idx).policy = Direct
    /\ inner = "setSignalWithPublish" => CanWrite(th[t].f)
    /\ LET f == th[t].f
           e == NotifyEntry(f, th[t].idx)
           rec == [th[t] EXCEPT !.pc = "cb_lock", !.inner = inner,
                                !.called = Append(@, e.id)]
       IN /\ IF inner \in {"addCallback", "addSnapshotCallback"}
             THEN /\ nextId' = [nextId EXCEPT ![f] = @ + 1]
                  /\ issued' = [issued EXCEPT ![f] = Append(@, FetchAddId(f))]
             ELSE UNCHANGED <<nextId, issued>>
          /\ IF inner = "setSignalWithPublish"
             THEN /\ data' = [data EXCEPT ![f] = WriteSignal(@, "value", MaxVal)]
                  /\ th' = Wrote(t, f, rec)
             ELSE /\ UNCHANGED data
                  /\ th' = [th EXCEPT ![t] = rec]
    /\ UNCHANGED <<bus, pframes, pcbmap, fstate, rwlock, callbacks, cbMutex, wk, ops,
                   reg, psubs, gone>>

\* std::unique_lock<std::mutex> lock(cb_mutex_) can be taken by thread t.
CanLockCbRecursive(t, f) == cbMutex[f] \in {Null, t}
CanLockCb(t, f) == cbMutex[f] = Null

\* The operation the callback called locks cb_mutex_.  std::mutex::lock() by the
\* thread that owns the mutex is undefined: the thread blocks for ever (no step),
\* or the library detects the relock and lock() throws std::system_error, which
\* leaves the callback and notifyCallbacks, whose unique_lock releases cb_mutex_.
ReenterLock(t) ==
    /\ th[t].pc = "cb_lock"
    /\ IF CanLockCb(t, th[t].f)
       THEN /\ cbMutex' = [cbMutex EXCEPT ![th[t].f] = t]
            /\ th' = [th EXCEPT ![t].pc = "cb_in"]
       ELSE /\ cbMutex[th[t].f] = t
            /\ cbMutex' = [cbMutex EXCEPT ![th[t].f] = Null]
            /\ th' = [th EXCEPT ![t].pc = "ret", ![t].res = "system_error",
                                ![t].err = "system_error"]
    /\ UNCHANGED <<bus, pframes, pcbmap, fstate, data, rwlock, callbacks, nextId,
                   wk, ops, issued, reg, psubs, gone>>

\* The loop is over: cb_mutex_ is released and notifyCallbacks returns.
NotifyUnlock(t) ==
    /\ th[t].pc = "nf_loop"
    /\ th[t].idx > Len(callbacks[th[t].f])
    /\ cbMutex' = [cbMutex EXCEPT ![th[t].f] = Null]
    /\ th' = [th EXCEPT ![t].pc = "ret"]
    /\ UNCHANGED <<bus, pframes, pcbmap, fstate, data, rwlock, callbacks, nextId,
                   wk, ops, issued, reg, psubs, gone>>

\* ---- removeCallback / stopAndJoin ---------------------------------------
\* CallbackEntry::stopAndJoin, first half: stop = true; cv.notify_all().
SetStop(w) ==
    [w EXCEPT !.stop = TRUE, !.mark = IF w.stop THEN @ ELSE Len(w.enq),
              !.left = IF w.stop THEN @ ELSE Len(w.queue)]

\* CallbackEntry::stopAndJoin, second half: if (worker.joinable()) worker.join()
\* returns.
JoinSkipped(w) == TRUE
JoinReturns(w) == ~w.joinable \/ w.state = "exited"
Joined(w) == [w EXCEPT !.joinable = FALSE, !.joins = IF w.joinable THEN @ + 1 ELSE @]

\* History: the entry with this id was pushed on callbacks_ and erased again.
WasRemoved(f, id) == id \in Range(reg[f]) /\ ~Registered(f, id)

\* IFrame::removeCallback(id) called on its own.
StartRemoveCallback(t, n, id) ==
    /\ CanStart(t)
    /\ GetFrame(n) # Null
    /\ th' = [th EXCEPT ![t] = [IdleRec EXCEPT !.pc = "rm_lock", !.op = "removeCallback",
                                    !.f = GetFrame(n), !.id = id,
                                    !.dup = WasRemoved(GetFrame(n), id)]]
    /\ ops' = ops + 1
    /\ UNCHANGED <<bus, pframes, pcbmap, fstate, data, rwlock, callbacks, nextId,
                   cbMutex, wk, issued, reg, psubs, gone>>

\* removeCallback takes cb_mutex_ and looks for the id.  No entry: it returns.
\* A Direct entry: erased at once.  A Threaded entry: stop is set and the thread
\* goes on to join the worker, holding cb_mutex_.
RemoveLock(t) ==
    /\ th[t].pc = "rm_lock"
    /\ cbMutex[th[t].f] = Null
    /\ LET f == th[t].f
           i == FindEntry(f, th[t].id)
       IN IF i = 0
          THEN /\ th' = [th EXCEPT ![t].pc = "ret", ![t].res = "absent"]
               /\ UNCHANGED <<callbacks, cbMutex, wk>>
          ELSE IF callbacks[f][i].policy = Direct
          THEN /\ callbacks' = [callbacks EXCEPT ![f] = RemoveAt(@, i)]
               /\ th' = [th EXCEPT ![t].pc = "ret", ![t].res = "removed"]
               /\ UNCHANGED <<cbMutex, wk>>
          ELSE /\ cbMutex' = [cbMutex EXCEPT ![f] = t]
               /\ wk' = [wk EXCEPT ![f][th[t].id] = SetStop(@)]
               /\ th' = [th EXCEPT ![t].pc = "rm_join", ![t].idx = i]
               /\ UNCHANGED callbacks
    /\ UNCHANGED <<bus, pframes, pcbmap, fstate, data, rwlock, nextId, ops,
                   issued, reg, psubs, gone>>

\* The join returns: the entry is erased and cb_mutex_ released.
RemoveJoin(t) ==
    /\ th[t].pc = "rm_join"
    /\ JoinReturns(wk[th[t].f][th[t].id])
    /\ LET f == th[t].f IN
        /\ wk' = [wk EXCEPT ![f][th[t].id] = Joined(@)]
        /\ callbacks' = [callbacks EXCEPT ![f] = RemoveAt(@, th[t].idx)]
        /\ cbMutex' = [cbMutex EXCEPT ![f] = Null]
    /\ th' = [th EXCEPT ![t].pc = "ret", ![t].res = "removed"]
    /\ UNCHANGED <<bus, pframes, pcbmap, fstate, data, rwlock, nextId, ops,
                   issued, reg, psubs, gone>>

\* ---- stopThreadedCallbacks / ~IFrame ------------------------------------
\* IFrame::stopThreadedCallbacks() called on its own.
StartStopThreaded(t, n) ==
    /\ CanStart(t)
    /\ GetFrame(n) # Null
    /\ th' = [th EXCEPT ![t] = [IdleRec EXCEPT !.pc = "st_lock",
                                    !.op = "stopThreadedCallbacks", !.f = GetFrame(n)]]
    /\ ops' = ops + 1
    /\ UNCHANGED <<bus, pframes, pcbmap, fstate, data, rwlock, callbacks, nextId,
                   cbMutex, wk, issued, reg, psubs, gone>>

StopLock(t) ==
    /\ th[t].pc = "st_lock"
    /\ cbMutex[th[t].f] = Null
    /\ cbMutex' = [cbMutex EXCEPT ![th[t].f] = t]
    /\ th' = [th EXCEPT ![t].pc = "st_loop", ![t].idx = 1]
    /\ UNCHANGED <<bus, pframes, pcbmap, fstate, data, rwlock, callbacks, nextId,
                   wk, ops, issued, reg, psubs, gone>>

\* if (policy == CallbackPolicy::Threaded && threadedData) in stopAndJoin.
StopSkips(e) == FALSE
StopVisits(e) == e.policy = Threaded

\* One round of the loop: entry.stopAndJoin() up to the join.
StopStep(t) ==
    /\ th[t].pc = "st_loop"
    /\ th[t].idx <= Len(callbacks[th[t].f])
    /\ LET f == th[t].f
           e == callbacks[f][th[t].idx]
       IN IF StopVisits(e)
          THEN /\ wk' = [wk EXCEPT ![f][e.id] = SetStop(@)]
               /\ th' = [th EXCEPT ![t].pc = "st_join"]
          ELSE /\ th' = [th EXCEPT ![t].idx = @ + 1]
               /\ UNCHANGED wk
    /\ UNCHANGED <<bus, pframes, pcbmap, fstate, data, rwlock, callbacks, nextId,
                   cbMutex, ops, issued, reg, psubs, gone>>

StopJoin(t) ==
    /\ th[t].pc = "st_join"
    /\ LET f == th[t].f
           e == callbacks[f][th[t].idx]
       IN /\ JoinReturns(wk[f][e.id])
          /\ wk' = [wk EXCEPT ![f][e.id] = Joined(@)]
    /\ th' = [th EXCEPT ![t].pc = "st_loop", ![t].idx = @ + 1]
    /\ UNCHANGED <<bus, pframes, pcbmap, fstate, data, rwlock, callbacks, nextId,
                   cbMutex, ops, issued, reg, psubs, gone>>

\* The loop is over: cb_mutex_ is released.  In ~IFrame the members are then
\* destroyed and the frame is gone.
StopUnlock(t) ==
    /\ th[t].pc = "st_loop"
    /\ th[t].idx > Len(callbacks[th[t].f])
    /\ cbMutex' = [cbMutex EXCEPT ![th[t].f] = Null]
    /\ IF th[t].dtor
       THEN /\ fstate' = [fstate EXCEPT ![th[t].f] = "dead"]
            /\ th' = [th EXCEPT ![t] = IdleRec]
       ELSE /\ th' = [th EXCEPT ![t].pc = "ret"]
            /\ UNCHANGED fstate
    /\ UNCHANGED <<bus, pframes, pcbmap, data, rwlock, callbacks, nextId,
                   wk, ops, issued, reg, psubs, gone>>

\* ---- return ---------------------------------------------------------------
\* The operation returns and the caller's shared_ptr goes out of scope: the last
\* owner runs ~IFrame, which calls stopThreadedCallbacks.
Return(t) ==
    /\ th[t].pc = "ret"
    /\ LET f == th[t].f IN
        IF f # Null /\ fstate[f] = "live" /\ Holders(f) = {<<"thread", t>>}
        THEN th' = [th EXCEPT ![t] = [IdleRec EXCEPT !.pc = "st_lock", !.op = "~IFrame",
                                          !.f = f, !.dtor = TRUE]]
        ELSE th' = [th EXCEPT ![t] = IdleRec]
    /\ UNCHANGED <<bus, pframes, pcbmap, fstate, data, rwlock, callbacks, nextId,
                   cbMutex, wk, ops, issued, reg, psubs, gone>>

\* -------------------------------------------------------------------- ports
\* PortBase::findFrame(name): the frame this port is connected to, or Null.
FindFrameOnBus(p, n) == IF bus[n] = Null THEN Null ELSE pframes[p][n]
FindFrameRebound(p, n) == IF pframes[p][n] = Null THEN Null ELSE bus[n]
FindFrame(p, n) == pframes[p][n]

\* frames_.count(frameName) in connectFrame.
IsConnectedNever(p, n) == FALSE
IsConnected(p, n) == pframes[p][n] # Null

\* The record of a thread whose port operation found no frame and returns res.
NoFrameRec(op, p, res) ==
    [IdleRec EXCEPT !.pc = "ret", !.op = op, !.port = p, !.res = res]

\* PortBase::subscribeFrame(frameName, cb), up to the fetch_add inside
\* addSnapshotCallback; 0 is returned when the frame is not connected.
StartSubscribeFrame(t, p, n) ==
    /\ CanStart(t)
    /\ LET f == FindFrame(p, n) IN
        IF f = Null
        THEN /\ th' = [th EXCEPT ![t] = [NoFrameRec("subscribeFrame", p, 0) EXCEPT
                                             !.name = n, !.onBus = GetFrame(n) # Null]]
             /\ UNCHANGED <<nextId, issued>>
        ELSE /\ nextId' = [nextId EXCEPT ![f] = @ + 1]
             /\ issued' = [issued EXCEPT ![f] = Append(@, FetchAddId(f))]
             /\ th' = [th EXCEPT ![t] = [IdleRec EXCEPT !.pc = "as_push",
                                             !.op = "subscribeFrame", !.port = p, !.f = f,
                                             !.name = n, !.onBus = GetFrame(n) # Null,
                                             !.id = FetchAddId(f), !.policy = Threaded]]
    /\ ops' = ops + 1
    /\ UNCHANGED <<bus, pframes, pcbmap, fstate, data, rwlock, callbacks, cbMutex,
                   wk, reg, psubs, gone>>

\* PortBase::subscribeFrameDirect(frameName, cb), up to the fetch_add inside
\* addCallback(wrapper, Direct).
StartSubscribeFrameDirect(t, p, n) ==
    /\ CanStart(t)
    /\ LET f == FindFrame(p, n) IN
        IF f = Null
        THEN /\ th' = [th EXCEPT ![t] = [NoFrameRec("subscribeFrameDirect", p, 0) EXCEPT
                                             !.name = n]]
             /\ UNCHANGED <<nextId, issued>>
        ELSE /\ nextId' = [nextId EXCEPT ![f] = @ + 1]
             /\ issued' = [issued EXCEPT ![f] = Append(@, FetchAddId(f))]
             /\ th' = [th EXCEPT ![t] = [IdleRec EXCEPT !.pc = "ac_push",
                                             !.op = "subscribeFrameDirect", !.port = p,
                                             !.f = f, !.name = n, !.id = FetchAddId(f),
                                             !.policy = Direct]]
    /\ ops' = ops + 1
    /\ UNCHANGED <<bus, pframes, pcbmap, fstate, data, rwlock, callbacks, cbMutex,
                   wk, reg, psubs, gone>>

\* callback_map_[id] = frame, under the port's cb_mutex_; the id is returned.
PortRecord(t) ==
    /\ th[t].pc = "ps_record"
    /\ pcbmap' = [pcbmap EXCEPT ![th[t].port] = MapPut(@, th[t].id, th[t].f)]
    /\ psubs' = [psubs EXCEPT ![th[t].port] = @ \cup {<<th[t].f, th[t].id>>}]
    /\ th' = [th EXCEPT ![t].pc = "ret"]
    /\ UNCHANGED <<bus, pframes, fstate, data, rwlock, callbacks, nextId, cbMutex,
                   wk, ops, issued, reg, gone>>

\* The frame callback_map_ gives for an id, Null when it has none.
MapFrame(p, id) == IF id \in DOMAIN pcbmap[p] THEN pcbmap[p][id] ELSE Null

\* The frames on which a subscribe call of port p returned this id and which the
\* port has not unsubscribed since.
Owners(p, id) == {f \in Frames : <<f, id>> \in psubs[p]}

\* PortBase::unsubscribeFrame(callbackId), up to the call of removeCallback.  g is
\* the frame of the subscribe call whose returned id the caller passes; it is Null
\* when the caller repeats an unsubscribe or passes an id no call returned.
StartUnsubscribeFrame(t, p, id, g) ==
    /\ CanStart(t)
    /\ \/ g \in Owners(p, id)
       \/ g = Null /\ (Owners(p, id) = {} \/ id \in gone[p])
    /\ pcbmap' = [pcbmap EXCEPT ![p] = MapDel(@, id)]
    /\ psubs' = [psubs EXCEPT ![p] = @ \ {<<g, id>>}]
    /\ gone' = [gone EXCEPT ![p] = IF g = Null THEN @ ELSE @ \cup {id}]
    /\ th' = [th EXCEPT ![t] =
                IF MapFrame(p, id) = Null
                THEN [NoFrameRec("unsubscribeFrame", p, "absent") EXCEPT
                         !.id = id, !.target = g, !.dup = (g = Null /\ id \in gone[p])]
                ELSE [IdleRec EXCEPT !.pc = "rm_lock", !.op = "unsubscribeFrame",
                                     !.port = p, !.f = MapFrame(p, id), !.id = id,
                                     !.target = g, !.dup = (g = Null /\ id \in gone[p])]]
    /\ ops' = ops + 1
    /\ UNCHANGED <<bus, pframes, fstate, data, rwlock, callbacks, nextId, cbMutex,
                   wk, issued, reg>>

\* PortBase::setSignalToFrameWithPublish(frameName, signal, value): false when the
\* frame is not connected or the frame throws.
StartSetSignalToFrameWithPublish(t, p, n, s, any) ==
    /\ CanStart(t)
    /\ IF FindFrame(p, n) = Null
       THEN /\ th' = [th EXCEPT ![t] =
                        [NoFrameRec("setSignalToFrameWithPublish", p, "false") EXCEPT
                            !.sig = s, !.arg = any, !.name = n,
                            !.onBus = GetFrame(n) # Null]]
            /\ ops' = ops + 1
            /\ UNCHANGED <<bus, pframes, pcbmap, fstate, data, rwlock, callbacks, nextId,
                           cbMutex, wk, issued, reg, psubs, gone>>
       ELSE SetSignalOn(t, FindFrame(p, n), s, any,
                        [IdleRec EXCEPT !.op = "setSignalToFrameWithPublish", !.port = p,
                                        !.f = FindFrame(p, n), !.name = n,
                                        !.onBus = GetFrame(n) # Null], TRUE)

\* PortBase::setSignalToFrame(frameName, signal, value).
StartSetSignalToFrame(t, p, n, s, any) ==
    /\ CanStart(t)
    /\ IF FindFrame(p, n) = Null
       THEN /\ th' = [th EXCEPT ![t] =
                        [NoFrameRec("setSignalToFrame", p, "false") EXCEPT
                            !.sig = s, !.arg = any, !.name = n]]
            /\ ops' = ops + 1
            /\ UNCHANGED <<bus, pframes, pcbmap, fstate, data, rwlock, callbacks, nextId,
                           cbMutex, wk, issued, reg, psubs, gone>>
       ELSE SetSignalOn(t, FindFrame(p, n), s, any,
                        [IdleRec EXCEPT !.op = "setSignalToFrame", !.port = p,
                                        !.f = FindFrame(p, n), !.name = n], FALSE)

\* PortBase::connectFrame(frameName).
StartConnectFrame(t, p, n) ==
    /\ CanStart(t)
    /\ IF IsConnected(p, n)
       THEN /\ th' = [th EXCEPT ![t] = [NoFrameRec("connectFrame", p, "true") EXCEPT
                                            !.name = n, !.dup = TRUE]]
            /\ UNCHANGED pframes
       ELSE IF GetFrame(n) = Null
       THEN /\ th' = [th EXCEPT ![t] = [NoFrameRec("connectFrame", p, "false") EXCEPT
                                            !.name = n, !.dup = pframes[p][n] # Null]]
            /\ UNCHANGED pframes
       ELSE /\ pframes' = [pframes EXCEPT ![p][n] = GetFrame(n)]
            /\ th' = [th EXCEPT ![t] = [NoFrameRec("connectFrame", p, "true") EXCEPT
                                            !.f = GetFrame(n), !.name = n,
                                            !.dup = pframes[p][n] # Null]]
    /\ ops' = ops + 1
    /\ UNCHANGED <<bus, pcbmap, fstate, data, rwlock, callbacks, nextId, cbMutex,
                   wk, issued, reg, psubs, gone>>

\* frames_.erase(frameName) on the frames_ of port p.
EraseEverywhere(frames, p, n) == [q \in Ports |-> [frames[q] EXCEPT ![n] = Null]]
Erase(frames, p, n) == [frames EXCEPT ![p][n] = Null]

\* PortBase::disconnectFrame(frameName): frames_.erase(frameName).  The thread
\* carries the reference it dropped until it returns.
StartDisconnectFrame(t, p, n) ==
    /\ CanStart(t)
    /\ pframes' = Erase(pframes, p, n)
    /\ th' = [th EXCEPT ![t] = [NoFrameRec("disconnectFrame", p, Null) EXCEPT
                                    !.f = pframes[p][n], !.name = n]]
    /\ ops' = ops + 1
    /\ UNCHANGED <<bus, pcbmap, fstate, data, rwlock, callbacks, nextId, cbMutex,
                   wk, issued, reg, psubs, gone>>

\* FrameBus::unregisterFrame(name): frames_.erase(name).
StartUnregisterFrame(t, n) ==
    /\ CanStart(t)
    /\ bus' = [bus EXCEPT ![n] = Null]
    /\ th' = [th EXCEPT ![t] = [IdleRec EXCEPT !.pc = "ret", !.op = "unregisterFrame",
                                    !.f = bus[n], !.name = n]]
    /\ ops' = ops + 1
    /\ UNCHANGED <<pframes, pcbmap, fstate, data, rwlock, callbacks, nextId, cbMutex,
                   wk, issued, reg, psubs, gone>>

\* FrameBus::registerFrame(name, frame): frames_[name] = std::move(frame).  The
\* thread carries the reference the assignment dropped until it returns.
StartRegisterFrame(t, n, f) ==
    /\ CanStart(t)
    /\ fstate[f] = "live"
    /\ bus' = [bus EXCEPT ![n] = f]
    /\ th' = [th EXCEPT ![t] = [IdleRec EXCEPT !.pc = "ret", !.op = "registerFrame",
                                    !.f = bus[n], !.name = n, !.target = f]]
    /\ ops' = ops + 1
    /\ UNCHANGED <<pframes, pcbmap, fstate, data, rwlock, callbacks, nextId, cbMutex,
                   wk, issued, reg, psubs, gone>>

\* FrameBus::getFrame(name) called on its own: the frame, or nullptr.
StartGetFrame(t, n) ==
    /\ CanStart(t)
    /\ th' = [th EXCEPT ![t] =
                [IdleRec EXCEPT !.pc = "ret", !.op = "getFrame", !.name = n,
                                !.f = GetFrame(n),
                                !.res = IF GetFrame(n) = Null THEN "nullptr" ELSE "frame"]]
    /\ ops' = ops + 1
    /\ UNCHANGED <<bus, pframes, pcbmap, fstate, data, rwlock, callbacks, nextId, cbMutex,
                   wk, issued, reg, psubs, gone>>

\* ------------------------------------------------------- raw access, data()
\* Thread t holds data_rwlock_ of frame f exclusively / at least shared.
HoldsExclusive(t, f) == rwlock[f].w = t
HoldsShared(t, f) == t \in rwlock[f].r \/ rwlock[f].w = t

\* if (size == bufsize) in the block of setRawDataToFrame; buf.size() ==
\* sizeof(DataT) in the default deserializer_.
SizeMatchesAny(buf) == TRUE
SizeMatches(buf) == Len(buf) = FrameSize

\* FrameBase::writeRawData(func): the thread asks for the exclusive lock.  buf is
\* what the caller's block copies into the frame (setRawDataToFrame's memcpy).
StartWriteRawData(t, n, buf) ==
    /\ CanStart(t)
    /\ GetFrame(n) # Null
    /\ th' = [th EXCEPT ![t] = [IdleRec EXCEPT !.pc = "wr_lock", !.op = "writeRawData",
                                    !.f = GetFrame(n), !.buf = buf]]
    /\ ops' = ops + 1
    /\ UNCHANGED <<bus, pframes, pcbmap, fstate, data, rwlock, callbacks, nextId,
                   cbMutex, wk, issued, reg, psubs, gone>>

\* std::unique_lock lock(data_rwlock_) in writeRawData.
WriteRawLock(t) ==
    /\ th[t].pc = "wr_lock"
    /\ CanWrite(th[t].f)
    /\ rwlock' = [rwlock EXCEPT ![th[t].f].w = t]
    /\ th' = [th EXCEPT ![t].pc = "wr_block", ![t].idx = 1]
    /\ UNCHANGED <<bus, pframes, pcbmap, fstate, data, callbacks, nextId,
                   cbMutex, wk, ops, issued, reg, psubs, gone>>

\* The block writes the next cell of the data block.
WriteRawCell(t) ==
    /\ th[t].pc = "wr_block"
    /\ th[t].idx <= FrameSize
    /\ SizeMatches(th[t].buf)
    /\ data' = [data EXCEPT ![th[t].f][th[t].idx] = th[t].buf[th[t].idx]]
    /\ th' = Wrote(t, th[t].f, [th[t] EXCEPT !.idx = @ + 1, !.clean = TRUE,
                                             !.locked = HoldsExclusive(t, th[t].f)])
    /\ UNCHANGED <<bus, pframes, pcbmap, fstate, rwlock, callbacks, nextId,
                   cbMutex, wk, ops, issued, reg, psubs, gone>>

\* The block is done and the lock released.  setRawDataToFrame returns ok;
\* setRawDataToFrameWithPublish goes on to notifyCallbacks if (ok).
\* The unique_lock of writeRawData goes out of scope.
KeepExclusive(l) == l
ReleaseExclusive(l) == [l EXCEPT !.w = Null]

AfterRawWriteAlways(op, ok) ==
    IF op = "setRawDataToFrameWithPublish" THEN "nf_lock" ELSE "ret"
AfterRawWrite(op, ok) ==
    IF op = "setRawDataToFrameWithPublish" /\ ok THEN "nf_lock" ELSE "ret"

\* The end of the writeRawData lambda: the exclusive lock is released; then
\* `if (ok) frame->notifyCallbacks()` in setRawDataToFrameWithPublish.
WriteRawUnlock(t) ==
    /\ th[t].pc = "wr_block"
    /\ th[t].idx > FrameSize \/ ~SizeMatches(th[t].buf)
    /\ rwlock' = [rwlock EXCEPT ![th[t].f] = ReleaseExclusive(@)]
    /\ th' = [th EXCEPT ![t].pc = AfterRawWrite(th[t].op, SizeMatches(th[t].buf)),
                        ![t].res = IF th[t].port = Null THEN Null
                                   ELSE IF SizeMatches(th[t].buf) THEN "ok" ELSE "false"]
    /\ UNCHANGED <<bus, pframes, pcbmap, fstate, data, callbacks, nextId,
                   cbMutex, wk, ops, issued, reg, psubs, gone>>

\* FrameBase::readRawData(func): the thread asks for the shared lock.
StartReadRawData(t, n) ==
    /\ CanStart(t)
    /\ GetFrame(n) # Null
    /\ th' = [th EXCEPT ![t] = [IdleRec EXCEPT !.pc = "rd_lock", !.op = "readRawData",
                                    !.f = GetFrame(n)]]
    /\ ops' = ops + 1
    /\ UNCHANGED <<bus, pframes, pcbmap, fstate, data, rwlock, callbacks, nextId,
                   cbMutex, wk, issued, reg, psubs, gone>>

\* std::shared_lock lock(data_rwlock_) in readRawData.
ReadRawLock(t) ==
    /\ th[t].pc = "rd_lock"
    /\ CanRead(th[t].f)
    /\ rwlock' = [rwlock EXCEPT ![th[t].f].r = @ \cup {t}]
    /\ th' = [th EXCEPT ![t].pc = "rd_block", ![t].idx = 1]
    /\ UNCHANGED <<bus, pframes, pcbmap, fstate, data, callbacks, nextId,
                   cbMutex, wk, ops, issued, reg, psubs, gone>>

\* The block copies the next cell out of the data block.
ReadRawCell(t) ==
    /\ th[t].pc = "rd_block"
    /\ th[t].idx <= FrameSize
    /\ th' = [th EXCEPT ![t].idx = @ + 1,
                        ![t].buf = Append(@, data[th[t].f][th[t].idx]),
                        ![t].locked = HoldsShared(t, th[t].f),
                        ![t].torn = @ \/ MidWrite(t, th[t].f)]
    /\ UNCHANGED <<bus, pframes, pcbmap, fstate, data, rwlock, callbacks, nextId,
                   cbMutex, wk, ops, issued, reg, psubs, gone>>

ReadRawUnlock(t) ==
    /\ th[t].pc = "rd_block"
    /\ th[t].idx > FrameSize
    /\ rwlock' = [rwlock EXCEPT ![th[t].f].r = @ \ {t}]
    /\ th' = [th EXCEPT ![t].pc = "ret",
                        ![t].res = IF th[t].port = Null THEN Null ELSE "true"]
    /\ UNCHANGED <<bus, pframes, pcbmap, fstate, data, callbacks, nextId,
                   cbMutex, wk, ops, issued, reg, psubs, gone>>

\* What getSignal(name) returns or throws: the getter's std::any of the field.
GetterResult(f, s) ==
    IF HasSignal(s) THEN [type |-> SignalType(s), v |-> data[f][SignalCell(s)]]
    ELSE "UnknownSignal"

GetterError(s) == IF HasSignal(s) THEN Null ELSE "UnknownSignal"

\* PortBase::getSignalFromFrameAsAny(frameName, signal): throws when the frame is
\* not connected, and lets the frame's exception through.
StartGetSignalFromFrame(t, p, n, s) ==
    /\ CanStart(t)
    /\ FindFrame(p, n) # Null /\ HasSignal(s) => CanRead(FindFrame(p, n))
    /\ th' = [th EXCEPT ![t] =
                IF FindFrame(p, n) = Null
                THEN [NoFrameRec("getSignalFromFrame", p, "FrameNotFound") EXCEPT
                         !.sig = s, !.err = "FrameNotFound", !.name = n,
                         !.onBus = GetFrame(n) # Null]
                ELSE [IdleRec EXCEPT !.pc = "ret", !.op = "getSignalFromFrame",
                         !.port = p, !.f = FindFrame(p, n), !.sig = s, !.clean = TRUE,
                         !.name = n, !.onBus = GetFrame(n) # Null,
                         !.torn = MidWrite(t, FindFrame(p, n)),
                         !.res = GetterResult(FindFrame(p, n), s),
                         !.err = GetterError(s)]]
    /\ ops' = ops + 1
    /\ UNCHANGED <<bus, pframes, pcbmap, fstate, data, rwlock, callbacks, nextId,
                   cbMutex, wk, issued, reg, psubs, gone>>

\* std::any_cast<T>(any): the value, or bad_any_cast when the any holds another type.
AnyCastError(any, T) == IF any.type = T THEN Null ELSE "TypeMismatch"

\* IPort::getSignalFromFrame<T>(frameName, signal):
\* any_cast<T>(getSignalFromFrameAsAny(frameName, signal)), nothing caught.
StartGetSignalFromFrameAs(t, p, n, s, T) ==
    /\ CanStart(t)
    /\ FindFrame(p, n) # Null /\ HasSignal(s) => CanRead(FindFrame(p, n))
    /\ th' = [th EXCEPT ![t] =
                IF FindFrame(p, n) = Null
                THEN [NoFrameRec("getSignalFromFrame<T>", p, "FrameNotFound") EXCEPT
                         !.sig = s, !.err = "FrameNotFound", !.name = n]
                ELSE LET f == FindFrame(p, n)
                         rec == [IdleRec EXCEPT !.pc = "ret", !.op = "getSignalFromFrame<T>",
                                    !.port = p, !.f = f, !.sig = s, !.name = n,
                                    !.clean = TRUE, !.torn = MidWrite(t, f)]
                     IN IF GetterError(s) # Null
                        THEN [rec EXCEPT !.res = GetterError(s), !.err = GetterError(s)]
                        ELSE IF AnyCastError(GetterResult(f, s), T) # Null
                        THEN [rec EXCEPT !.res = AnyCastError(GetterResult(f, s), T),
                                         !.err = AnyCastError(GetterResult(f, s), T)]
                        ELSE [rec EXCEPT !.res = GetterResult(f, s)]]
    /\ ops' = ops + 1
    /\ UNCHANGED <<bus, pframes, pcbmap, fstate, data, rwlock, callbacks, nextId,
                   cbMutex, wk, issued, reg, psubs, gone>>

\* IFrame::getSignal(name): the getter copies the field under the shared lock.
StartGetSignal(t, n, s) ==
    /\ CanStart(t)
    /\ GetFrame(n) # Null
    /\ HasSignal(s) => CanRead(GetFrame(n))
    /\ th' = [th EXCEPT ![t] =
                [IdleRec EXCEPT !.pc = "ret", !.op = "getSignal", !.f = GetFrame(n),
                    !.sig = s, !.clean = TRUE, !.torn = MidWrite(t, GetFrame(n)),
                    !.res = GetterResult(GetFrame(n), s),
                    !.err = GetterError(s)]]
    /\ ops' = ops + 1
    /\ UNCHANGED <<bus, pframes, pcbmap, fstate, data, rwlock, callbacks, nextId,
                   cbMutex, wk, issued, reg, psubs, gone>>

\* FrameBase::data() const / data(): the lock is taken (shared for the const
\* overload, exclusive otherwise) and released by the return; the caller holds a
\* reference to data_.
StartData(t, n, const) ==
    /\ CanStart(t)
    /\ GetFrame(n) # Null
    /\ IF const THEN CanRead(GetFrame(n)) ELSE CanWrite(GetFrame(n))
    /\ th' = [th EXCEPT ![t] = [IdleRec EXCEPT
                                    !.pc = IF const THEN "ref_read" ELSE "ref_write",
                                    !.op = "data", !.f = GetFrame(n)]]
    /\ ops' = ops + 1
    /\ UNCHANGED <<bus, pframes, pcbmap, fstate, data, rwlock, callbacks, nextId,
                   cbMutex, wk, issued, reg, psubs, gone>>

\* The caller reads a field through the reference data() const returned.
RefRead(t, s) ==
    /\ th[t].pc = "ref_read"
    /\ th' = [th EXCEPT ![t].pc = "ret", ![t].sig = s,
                        ![t].res = data[th[t].f][SignalCell(s)],
                        ![t].locked = HoldsShared(t, th[t].f)]
    /\ UNCHANGED <<bus, pframes, pcbmap, fstate, data, rwlock, callbacks, nextId,
                   cbMutex, wk, ops, issued, reg, psubs, gone>>

\* The caller writes a field through the reference data() returned.
RefWrite(t, s, v) ==
    /\ th[t].pc = "ref_write"
    /\ data' = [data EXCEPT ![th[t].f] = WriteSignal(@, s, v)]
    /\ th' = Wrote(t, th[t].f, [th[t] EXCEPT !.pc = "ret", !.sig = s, !.val = v,
                                             !.locked = HoldsExclusive(t, th[t].f)])
    /\ UNCHANGED <<bus, pframes, pcbmap, fstate, rwlock, callbacks, nextId,
                   cbMutex, wk, ops, issued, reg, psubs, gone>>

\* The caller's block of writeRawData / readRawData exits with an exception: the
\* lock guard is released by the unwinding.
WriteRawThrow(t) ==
    /\ th[t].pc = "wr_block"
    /\ th[t].op = "writeRawData"
    /\ rwlock' = [rwlock EXCEPT ![th[t].f].w = Null]
    /\ th' = [th EXCEPT ![t].pc = "ret", ![t].res = "threw"]
    /\ UNCHANGED <<bus, pframes, pcbmap, fstate, data, callbacks, nextId,
                   cbMutex, wk, ops, issued, reg, psubs, gone>>

ReadRawThrow(t) ==
    /\ th[t].pc = "rd_block"
    /\ th[t].op = "readRawData"
    /\ rwlock' = [rwlock EXCEPT ![th[t].f].r = @ \ {t}]
    /\ th' = [th EXCEPT ![t].pc = "ret", ![t].res = "threw"]
    /\ UNCHANGED <<bus, pframes, pcbmap, fstate, data, callbacks, nextId,
                   cbMutex, wk, ops, issued, reg, psubs, gone>>

\* PortBase::setRawDataToFrame(frameName, data, size) and, with publish,
\* setRawDataToFrameWithPublish: up to the call of writeRawData.
RawOp(publish) == IF publish THEN "setRawDataToFrameWithPublish" ELSE "setRawDataToFrame"
StartSetRawDataToFrame(t, p, n, buf, publish) ==
    /\ CanStart(t)
    /\ th' = [th EXCEPT ![t] =
                IF FindFrame(p, n) = Null
                THEN [NoFrameRec(RawOp(publish), p, "false") EXCEPT !.buf = buf, !.name = n]
                ELSE [IdleRec EXCEPT !.pc = "wr_lock", !.op = RawOp(publish), !.port = p,
                                     !.f = FindFrame(p, n), !.buf = buf, !.name = n,
                                     !.old = data[FindFrame(p, n)]]]
    /\ ops' = ops + 1
    /\ UNCHANGED <<bus, pframes, pcbmap, fstate, data, rwlock, callbacks, nextId,
                   cbMutex, wk, issued, reg, psubs, gone>>

\* PortBase::getRawDataFromFrame(frameName, cb): up to the call of readRawData.
StartGetRawDataFromFrame(t, p, n) ==
    /\ CanStart(t)
    /\ th' = [th EXCEPT ![t] =
                IF FindFrame(p, n) = Null
                THEN [NoFrameRec("getRawDataFromFrame", p, "false") EXCEPT !.name = n]
                ELSE [IdleRec EXCEPT !.pc = "rd_lock", !.op = "getRawDataFromFrame",
                                     !.port = p, !.f = FindFrame(p, n), !.name = n]]
    /\ ops' = ops + 1
    /\ UNCHANGED <<bus, pframes, pcbmap, fstate, data, rwlock, callbacks, nextId,
                   cbMutex, wk, issued, reg, psubs, gone>>

\* FrameBase::serialize(): serializer_(data_) under the shared lock.
StartSerialize(t, n) ==
    /\ CanStart(t)
    /\ GetFrame(n) # Null
    /\ CanRead(GetFrame(n))
    /\ th' = [th EXCEPT ![t] =
                [IdleRec EXCEPT !.pc = "ret", !.op = "serialize", !.f = GetFrame(n),
                                !.buf = Serialize(GetFrame(n)), !.clean = TRUE,
                                !.old = data[GetFrame(n)],
                                !.torn = MidWrite(t, GetFrame(n))]]
    /\ ops' = ops + 1
    /\ UNCHANGED <<bus, pframes, pcbmap, fstate, data, rwlock, callbacks, nextId,
                   cbMutex, wk, issued, reg, psubs, gone>>

\* The default deserializer_ past its size check: memcpy(&d, buf.data(),
\* sizeof(DataT)), the first FrameSize cells of buf.  It is reached with buffers of
\* that size only; a cell the buffer does not have keeps its value here.
DeserializeReversed(d, buf) ==
    [i \in 1..FrameSize |->
        IF FrameSize + 1 - i <= Len(buf) THEN buf[FrameSize + 1 - i] ELSE d[i]]
Deserialize(d, buf) == [i \in 1..FrameSize |-> IF i <= Len(buf) THEN buf[i] ELSE d[i]]

\* FrameBase::deserialize(raw) and, with publish, deserializeWithPublish(raw):
\* the exclusive lock is taken and deserializer_(data_, raw) runs; the default one
\* throws on a buffer of another size.  deserializeWithPublish then notifies and
\* returns raw.size() == sizeof(DataT).
DeserializeOp(publish) == IF publish THEN "deserializeWithPublish" ELSE "deserialize"
StartDeserialize(t, n, buf, publish) ==
    /\ CanStart(t)
    /\ GetFrame(n) # Null
    /\ CanWrite(GetFrame(n))
    /\ LET f == GetFrame(n)
           rec == [IdleRec EXCEPT !.op = DeserializeOp(publish), !.f = f, !.buf = buf,
                                  !.old = data[f]]
       IN IF SizeMatches(buf)
          THEN /\ data' = [data EXCEPT ![f] = Deserialize(@, buf)]
               /\ th' = Wrote(t, f, [rec EXCEPT !.pc = AfterWrite(publish),
                                                !.clean = TRUE,
                                                !.res = IF publish THEN "true" ELSE Null])
          ELSE /\ UNCHANGED data
               /\ th' = [th EXCEPT ![t] = [rec EXCEPT !.pc = "ret", !.err = "SizeMismatch"]]
    /\ ops' = ops + 1
    /\ UNCHANGED <<bus, pframes, pcbmap, fstate, rwlock, callbacks, nextId,
                   cbMutex, wk, issued, reg, psubs, gone>>

\* deserialize(serialize()): the caller serializes, then deserializes the bytes.
StartRoundTrip(t, n) ==
    /\ CanStart(t)
    /\ GetFrame(n) # Null
    /\ CanRead(GetFrame(n))
    /\ th' = [th EXCEPT ![t] =
                [IdleRec EXCEPT !.pc = "rt_deser", !.op = "roundTrip", !.f = GetFrame(n),
                                !.buf = Serialize(GetFrame(n)), !.clean = TRUE,
                                !.old = data[GetFrame(n)]]]
    /\ ops' = ops + 1
    /\ UNCHANGED <<bus, pframes, pcbmap, fstate, data, rwlock, callbacks, nextId,
                   cbMutex, wk, issued, reg, psubs, gone>>

RoundTripDeserialize(t) ==
    /\ th[t].pc = "rt_deser"
    /\ CanWrite(th[t].f)
    /\ IF SizeMatches(th[t].buf)
       THEN /\ data' = [data EXCEPT ![th[t].f] = Deserialize(@, th[t].buf)]
            /\ th' = Wrote(t, th[t].f, [th[t] EXCEPT !.pc = "ret"])
       ELSE /\ UNCHANGED data
            /\ th' = [th EXCEPT ![t].pc = "ret", ![t].err = "SizeMismatch"]
    /\ UNCHANGED <<bus, pframes, pcbmap, fstate, rwlock, callbacks, nextId,
                   cbMutex, wk, ops, issued, reg, psubs, gone>>

\* ------------------------------------------------------------------ engine
\* The callback engine of frame "A" driven by two threads through IFrame's own
\* operations, with the workers of its Threaded subscriptions.
Workers ==
    \E f \in Frames : \E id \in Ids :
        \/ WorkerTake(f, id)
        \/ WorkerReturn(f, id)
        \/ WorkerExit(f, id)

Steps(t) ==
    \/ AddCallbackPush(t)
    \/ AddSnapshotPush(t)
    \/ NotifyLock(t)
    \/ NotifyStep(t)
    \/ NotifyUnlock(t)
    \/ RemoveLock(t)
    \/ RemoveJoin(t)
    \/ Return(t)

StopSteps(t) ==
    \/ StopLock(t)
    \/ StopStep(t)
    \/ StopJoin(t)
    \/ StopUnlock(t)

IntAny(v) == [type |-> "int", v |-> v]

NextEngine ==
    \/ \E t \in Threads :
        \/ StartAddCallback(t, "A", Direct)
        \/ StartAddSnapshotCallback(t, "A")
        \/ \E v \in Vals : StartSetSignalWithPublish(t, "A", "value", IntAny(v))
        \/ \E id \in Ids : id <= nextId["f1"] /\ StartRemoveCallback(t, "A", id)
        \/ StartStopThreaded(t, "A")
        \/ Steps(t)
        \/ StopSteps(t)
    \/ Workers

SpecEngine == Init /\ [][NextEngine]_vars


\* ------------------------------------------------------------------- ports
\* Port "P", connected to both frames, driven by two threads through PortBase's
\* subscribe, unsubscribe and publish operations.
NextPort ==
    \/ \E t \in Threads :
        \/ \E n \in Names : StartSubscribeFrame(t, "P", n)
        \/ \E n \in Names : StartSubscribeFrameDirect(t, "P", n)
        \/ \E id \in Ids : \E g \in Frames \cup {Null} :
              StartUnsubscribeFrame(t, "P", id, g)
        \/ StartSetSignalToFrameWithPublish(t, "P", "A", "value", IntAny(1))
        \/ Steps(t)
        \/ PortRecord(t)
    \/ Workers

SpecPort == InitConnected /\ [][NextPort]_vars

\* ---------------------------------------------------------------- lifetime
\* Frame "A" loses its owners: threads subscribe to it and publish on it through
\* the shared_ptr the bus gives them, port "P" connects and disconnects, and the
\* bus entry is unregistered.
NextLife ==
    \/ \E t \in Threads :
        \/ StartAddSnapshotCallback(t, "A")
        \/ StartAddCallback(t, "A", Direct)
        \/ StartSetSignalWithPublish(t, "A", "value", IntAny(1))
        \/ \E id \in Ids : id <= nextId["f1"] /\ StartRemoveCallback(t, "A", id)
        \/ StartConnectFrame(t, "P", "A")
        \/ StartDisconnectFrame(t, "P", "A")
        \/ StartUnregisterFrame(t, "A")
        \/ Steps(t)
        \/ StopSteps(t)
    \/ Workers

SpecLife == Init /\ [][NextLife]_vars

\* ------------------------------------------------------------- connections
\* Both ports start connected to both frames; threads connect and disconnect them
\* and unregister the frames from the bus.  The frames have no subscription, so
\* the loop of ~IFrame has no entry to visit.
NextConnect ==
    \/ \E t \in Threads :
        \/ \E p \in Ports : \E n \in Names :
              StartConnectFrame(t, p, n) \/ StartDisconnectFrame(t, p, n)
        \/ \E n \in Names : StartUnregisterFrame(t, n)
        \/ Return(t)
        \/ StopLock(t)
        \/ StopUnlock(t)

SpecConnect == InitConnected /\ [][NextConnect]_vars

\* ----------------------------------------------------------------- fan-out
\* Two ports on frame "A": a thread publishes through port "P" while another
\* subscribes, unsubscribes and writes through port "Q".  Every started operation
\* runs on, and every worker thread is scheduled.
NextFair ==
    \/ \E v \in Vals : StartSetSignalToFrameWithPublish("t1", "P", "A", "value", IntAny(v))
    \/ StartSubscribeFrame("t2", "Q", "A")
    \/ StartSubscribeFrameDirect("t2", "Q", "A")
    \/ \E id \in Ids : \E g \in Frames \cup {Null} : StartUnsubscribeFrame("t2", "Q", id, g)
    \/ \E v \in Vals : StartSetSignalToFrame("t2", "Q", "A", "value", IntAny(v))
    \/ \E t \in Threads : Steps(t) \/ PortRecord(t)
    \/ Workers

Fairness ==
    /\ \A t \in Threads : WF_vars(Steps(t) \/ PortRecord(t))
    /\ \A f \in Frames : \A id \in Ids :
          WF_vars(WorkerTake(f, id) \/ WorkerReturn(f, id) \/ WorkerExit(f, id))

SpecFair == InitConnected /\ [][NextFair]_vars /\ Fairness

\* ------------------------------------------------------------------- locks
\* Frame "A" read and written by two threads through the frame's data operations.
NextLock ==
    \E t \in Threads :
        \/ \E s \in SignalNames : StartGetSignal(t, "A", s)
        \/ \E v \in Vals : StartSetSignal(t, "A", "value", IntAny(v))
        \/ \E buf \in [1..FrameSize -> Vals] : StartWriteRawData(t, "A", buf)
        \/ WriteRawLock(t)
        \/ WriteRawCell(t)
        \/ WriteRawUnlock(t)
        \/ StartReadRawData(t, "A")
        \/ ReadRawLock(t)
        \/ ReadRawCell(t)
        \/ ReadRawUnlock(t)
        \/ \E const \in BOOLEAN : StartData(t, "A", const)
        \/ \E s \in SignalNames : RefRead(t, s)
        \/ \E s \in SignalNames : \E v \in Vals : RefWrite(t, s, v)
        \/ Return(t)

SpecLock == Init /\ [][NextLock]_vars

\* notifyCallbacks in progress.
NotifySteps(t) ==
    \/ NotifyLock(t)
    \/ NotifyStep(t)
    \/ NotifyUnlock(t)

\* The workers while no subscription is being stopped.
WorkersRun ==
    \E f \in Frames : \E id \in Ids :
        \/ WorkerTake(f, id)
        \/ WorkerReturn(f, id)

\* ----------------------------------------------------------------- signals
\* Frame "A" with a Direct and a Threaded subscription: thread "t1" sets signals,
\* through port "P" and through the frame; thread "t2" gets them, through port "Q"
\* and through the frame.  Frame "B" is on the bus and connected to no port.
AllNames == SignalNames \cup {"nosuch"}
Anys == [type : {"int", "double"}, v : Vals]

NextSignal ==
    \/ \E s \in AllNames : \E any \in Anys : StartSetSignal("t1", "A", s, any)
    \/ \E s \in AllNames : \E any \in Anys : StartSetSignalWithPublish("t1", "A", s, any)
    \/ \E n \in Names : \E s \in AllNames : \E any \in Anys :
          StartSetSignalToFrame("t1", "P", n, s, any)
    \/ \E n \in Names : \E s \in AllNames : \E any \in Anys :
          StartSetSignalToFrameWithPublish("t1", "P", n, s, any)
    \/ \E s \in AllNames : StartGetSignal("t2", "A", s)
    \/ \E n \in Names : \E s \in AllNames : StartGetSignalFromFrame("t2", "Q", n, s)
    \/ \E t \in Threads : NotifySteps(t) \/ Return(t)
    \/ WorkersRun

SpecSignal == InitSubscribed /\ [][NextSignal]_vars

\* ------------------------------------------------------ plain and publishing
\* Frame "A" with a Direct and a Threaded subscription: thread "t1" writes it with
\* every plain operation and every WithPublish one, thread "t2" publishes.
NextPlain ==
    \/ \E v \in Vals : StartSetSignal("t1", "A", "value", IntAny(v))
    \/ \E v \in Vals : StartSetSignalWithPublish("t1", "A", "value", IntAny(v))
    \/ \E v \in Vals : StartSetSignalToFrame("t1", "P", "A", "value", IntAny(v))
    \/ \E v \in Vals : StartSetSignalToFrameWithPublish("t1", "P", "A", "value", IntAny(v))
    \/ \E buf \in [1..FrameSize -> Vals] : \E publish \in BOOLEAN :
          StartSetRawDataToFrame("t1", "P", "A", buf, publish)
    \/ \E buf \in [1..FrameSize -> Vals] : \E publish \in BOOLEAN :
          StartDeserialize("t1", "A", buf, publish)
    \/ StartNotify("t2", "A")
    \/ \E t \in Threads :
          \/ WriteRawLock(t)
          \/ WriteRawCell(t)
          \/ WriteRawUnlock(t)
          \/ NotifySteps(t)
          \/ Return(t)
    \/ WorkersRun

SpecPlain == InitSubscribed /\ [][NextPlain]_vars

\* ------------------------------------------------------------------- bytes
\* Frame "A" with a Direct and a Threaded subscription: thread "t1" deserializes
\* buffers of the frame's size, one cell short and one cell long, and round-trips
\* the frame; thread "t2" sets signals and serializes.
ByteBufs == [1..FrameSize -> Vals]
            \cup {[i \in 1..(FrameSize - 1) |-> MaxVal], [i \in 1..(FrameSize + 1) |-> MaxVal]}

NextBytes ==
    \/ \E buf \in ByteBufs : \E publish \in BOOLEAN : StartDeserialize("t1", "A", buf, publish)
    \/ StartRoundTrip("t1", "A")
    \/ RoundTripDeserialize("t1")
    \/ StartSerialize("t2", "A")
    \/ \E s \in SignalNames : \E any \in Anys : StartSetSignal("t2", "A", s, any)
    \/ \E t \in Threads : NotifySteps(t) \/ Return(t)
    \/ WorkersRun

SpecBytes == InitSubscribed /\ [][NextBytes]_vars

\* --------------------------------------------------------------- raw data
\* Frame "A" with a Direct and a Threaded subscription: two threads write and read
\* the whole data block through ports "P" and "Q" and through the frame itself,
\* next to getSignal and serialize.
RawSteps(t) ==
    \/ WriteRawLock(t)
    \/ WriteRawCell(t)
    \/ WriteRawUnlock(t)
    \/ WriteRawThrow(t)
    \/ ReadRawLock(t)
    \/ ReadRawCell(t)
    \/ ReadRawUnlock(t)
    \/ ReadRawThrow(t)

\* What a caller passes as raw data: a block of the frame's size, or one cell short.
RawBufs == [1..FrameSize -> Vals] \cup {[i \in 1..(FrameSize - 1) |-> MaxVal]}

\* Thread "t1" writes, through port "P" and through the frame; thread "t2" reads,
\* through port "Q" and through the frame, and publishes.
NextRaw ==
    \/ \E buf \in RawBufs : StartSetRawDataToFrame("t1", "P", "A", buf, FALSE)
    \/ \E buf \in [1..FrameSize -> Vals] : StartWriteRawData("t1", "A", buf)
    \/ StartGetRawDataFromFrame("t2", "Q", "A")
    \/ StartReadRawData("t2", "A")
    \/ \E s \in SignalNames : StartGetSignal("t2", "A", s)
    \/ StartSerialize("t2", "A")
    \/ StartNotify("t2", "A")
    \/ \E t \in Threads : RawSteps(t) \/ NotifySteps(t) \/ Return(t)
    \/ WorkersRun

SpecRaw == InitSubscribed /\ [][NextRaw]_vars

\* ------------------------------------------------------------ port failures
\* Ports "P" and "Q" are connected to frame "A" only; frame "B" is on the bus.
\* Thread "t1" sets signals and raw data through port "P", on either name, with
\* registered and unregistered signals and values of either type; thread "t2"
\* reads raw data through port "Q".
NextPortFail ==
    \/ \E n \in Names : \E s \in AllNames : \E any \in Anys :
          StartSetSignalToFrame("t1", "P", n, s, any)
    \/ \E n \in Names : \E s \in AllNames : \E any \in Anys :
          StartSetSignalToFrameWithPublish("t1", "P", n, s, any)
    \/ \E n \in Names : \E buf \in RawBufs : \E publish \in BOOLEAN :
          StartSetRawDataToFrame("t1", "P", n, buf, publish)
    \/ \E n \in Names : StartGetRawDataFromFrame("t2", "Q", n)
    \/ \E t \in Threads :
        \/ WriteRawLock(t)
        \/ WriteRawCell(t)
        \/ WriteRawUnlock(t)
        \/ ReadRawLock(t)
        \/ ReadRawCell(t)
        \/ ReadRawUnlock(t)
        \/ NotifySteps(t)
        \/ Return(t)
    \/ WorkersRun

SpecPortFail == InitSubscribed /\ [][NextPortFail]_vars

\* --------------------------------------------------------------- port gets
\* Ports "P" and "Q" are connected to frame "A" only.  Thread "t1" sets signals
\* through port "P"; thread "t2" gets them through port "Q", as std::any and as T,
\* on either name, with registered and unregistered signals.
NextGet ==
    \/ \E s \in SignalNames : \E v \in Vals :
          StartSetSignalToFrame("t1", "P", "A", s, [type |-> SignalType(s), v |-> v])
    \/ \E n \in Names : \E s \in AllNames : StartGetSignalFromFrame("t2", "Q", n, s)
    \/ \E n \in Names : \E s \in AllNames : \E T \in {"int", "double"} :
          StartGetSignalFromFrameAs("t2", "Q", n, s, T)
    \/ \E t \in Threads : Return(t)

SpecGet == InitSubscribed /\ [][NextGet]_vars

\* ------------------------------------------------------------------ detach
\* Ports "P" and "Q" are connected to frame "A", which port "Q" has subscribed to;
\* frame "B" is on the bus only.  Thread "t1" connects and disconnects port "P"
\* and unregisters frames; thread "t2" works on the frames through port "Q" and
\* asks the bus for them.
NextDetach ==
    \/ StartConnectFrame("t1", "P", "B")
    \/ \E n \in Names : StartDisconnectFrame("t1", "P", n)
    \/ \E n \in Names : StartUnregisterFrame("t1", n)
    \/ \E n \in Names : StartSetSignalToFrameWithPublish("t2", "Q", n, "value", IntAny(1))
    \/ \E n \in Names : StartGetSignalFromFrame("t2", "Q", n, "value")
    \/ \E n \in Names : StartSubscribeFrame("t2", "Q", n)
    \/ \E n \in Names : StartGetFrame("t2", n)
    \/ \E t \in Threads :
        \/ AddSnapshotPush(t)
        \/ PortRecord(t)
        \/ NotifySteps(t)
        \/ Return(t)
        \/ StopLock(t)
        \/ StopUnlock(t)
    \/ WorkersRun

SpecDetach == InitSubscribed /\ [][NextDetach]_vars

\* ------------------------------------------------------------------ misuse
\* Frame "A": threads register callbacks with addCallback, with the Direct policy
\* and with the default one, and with addSnapshotCallback, and publish.
NextMisuse ==
    \/ \E t \in Threads :
        \/ \E policy \in {Direct, DefaultPolicy} : StartAddCallback(t, "A", policy)
        \/ StartAddSnapshotCallback(t, "A")
        \/ StartNotify(t, "A")
        \/ AddCallbackPush(t)
        \/ AddSnapshotPush(t)
        \/ NotifySteps(t)
        \/ Return(t)
    \/ WorkersRun

SpecMisuse == Init /\ [][NextMisuse]_vars

\* ---------------------------------------------------------------- re-entry
\* Frame "A" with a Direct and a Threaded subscription: both threads publish; in
\* the publishes of thread "t1" the Direct callback returns or calls an operation
\* of frame "A".
NextReenter ==
    \/ StartNotify("t1", "A")
    \/ \E inner \in InnerOps : NotifyReenter("t1", inner)
    \/ ReenterLock("t1")
    \/ StartSetSignalWithPublish("t2", "A", "value", IntAny(0))
    \/ \E t \in Threads : NotifySteps(t) \/ Return(t)
    \/ WorkersRun

SpecReenter == InitSubscribed /\ [][NextReenter]_vars

\* --------------------------------------------------------------- snapshots
\* Frame "A" with a Direct and a Threaded subscription: thread "t1" publishes;
\* thread "t2" subscribes once more through port "Q" and writes without publish.
NextSnapshot ==
    \/ StartNotify("t1", "A")
    \/ \E v \in Vals : StartSetSignalWithPublish("t1", "A", "value", IntAny(v))
    \/ StartSubscribeFrame("t2", "Q", "A")
    \/ \E v \in Vals : StartSetSignal("t2", "A", "value", IntAny(v))
    \/ \E t \in Threads :
        \/ AddSnapshotPush(t)
        \/ PortRecord(t)
        \/ NotifySteps(t)
        \/ Return(t)
    \/ WorkersRun

SpecSnapshot == InitSubscribed /\ [][NextSnapshot]_vars

\* -------------------------------------------------------------------- stop
\* Frame "A" with a Direct and a Threaded subscription: thread "t1" publishes,
\* thread "t2" removes subscriptions and stops the Threaded ones.
NextStop ==
    \/ StartNotify("t1", "A")
    \/ \E v \in Vals : StartSetSignalWithPublish("t1", "A", "value", IntAny(v))
    \/ \E id \in 1..3 : StartRemoveCallback("t2", "A", id)
    \/ StartStopThreaded("t2", "A")
    \/ \E t \in Threads :
        \/ NotifySteps(t)
        \/ RemoveLock(t)
        \/ RemoveJoin(t)
        \/ StopSteps(t)
        \/ Return(t)
    \/ Workers

SpecStop == InitSubscribed /\ [][NextStop]_vars

\* Every started operation runs on, every callback returns, and every worker
\* thread is scheduled.
FairStop ==
    /\ \A t \in Threads :
          WF_vars(NotifySteps(t) \/ RemoveLock(t) \/ RemoveJoin(t) \/ StopSteps(t))
    /\ \A f \in Frames : \A id \in Ids :
          WF_vars(WorkerTake(f, id) \/ WorkerReturn(f, id) \/ WorkerExit(f, id))

SpecStopFair == InitSubscribed /\ [][NextStop]_vars /\ FairStop

\* --------------------------------------------------------- failed publishes
\* Frame "A" with a Direct and a Threaded subscription, ports connected to "A"
\* only.  Thread "t1" calls the WithPublish operations of the frame, thread "t2"
\* those of port "P", with inputs that are accepted and inputs that are not.
PubAnys == [type : {"int", "double"}, v : {MaxVal}]
PubBufs == {[i \in 1..FrameSize |-> MaxVal], [i \in 1..(FrameSize - 1) |-> MaxVal]}

NextPubFail ==
    \/ \E s \in {"value", "nosuch"} : \E any \in PubAnys :
          StartSetSignalWithPublish("t1", "A", s, any)
    \/ \E buf \in PubBufs : StartDeserialize("t1", "A", buf, TRUE)
    \/ \E n \in Names : \E any \in PubAnys :
          StartSetSignalToFrameWithPublish("t2", "P", n, "value", any)
    \/ \E n \in Names : \E buf \in PubBufs : StartSetRawDataToFrame("t2", "P", n, buf, TRUE)
    \/ \E t \in Threads :
        \/ WriteRawLock(t)
        \/ WriteRawCell(t)
        \/ WriteRawUnlock(t)
        \/ NotifySteps(t)
        \/ Return(t)
    \/ WorkersRun

SpecPubFail == InitSubscribed /\ [][NextPubFail]_vars

\* ------------------------------------------------------------ write order
\* Frame "A" with a Direct and a Threaded subscription.  Every write sets the
\* signal "value" to one more than the frame holds, so that the cell counts the
\* writes in the order they were made: both threads write and publish, thread
\* "t2" also writes without publishing.
NextValue == IntAny(data["f1"][SignalCell("value")] + 1)
NextOrder ==
    \/ \E t \in Threads : StartSetSignalWithPublish(t, "A", "value", NextValue)
    \/ StartSetSignal("t2", "A", "value", NextValue)
    \/ \E t \in Threads : NotifySteps(t) \/ Return(t)
    \/ WorkersRun

SpecOrder == InitSubscribed /\ [][NextOrder]_vars

\* --------------------------------------------------- re-entry from a worker
\* Frame "A" with a Direct and a Threaded subscription whose callback subscribes
\* to the frame: thread "t1" publishes, thread "t2" removes the subscriptions.
NextWorkerReenter ==
    \/ StartNotify("t1", "A")
    \/ \E id \in 1..2 : StartRemoveCallback("t2", "A", id)
    \/ \E t \in Threads :
        \/ NotifySteps(t)
        \/ RemoveLock(t)
        \/ RemoveJoin(t)
        \/ Return(t)
    \/ \E f \in Frames : \E id \in Ids :
        \/ WorkerTake(f, id)
        \/ WorkerCallsAdd(f, id)
        \/ WorkerAddPush(f, id)
        \/ WorkerReturn(f, id)
        \/ WorkerExit(f, id)

SpecWorkerReenter == InitSubscribed /\ [][NextWorkerReenter]_vars

\* ---------------------------------------------------------------- the mix
\* Frame "A" with a Direct and a Threaded subscription made through port "Q", both
\* ports connected to "A".  Thread "t1" works through the ports and thread "t2" on
\* the frame and the bus; no callback calls back into a port, a frame or the bus.
NextMix ==
    \/ StartSetRawDataToFrame("t1", "P", "A", [i \in 1..FrameSize |-> MaxVal], TRUE)
    \/ nextId["f1"] <= MaxOps /\ StartSubscribeFrame("t1", "P", "A")
    \/ StartUnsubscribeFrame("t1", "Q", 2, "f1")
    \/ StartConnectFrame("t1", "P", "B")
    \/ StartDisconnectFrame("t1", "P", "A")
    \/ StartNotify("t2", "A")
    \/ StartReadRawData("t2", "A")
    \/ StartRemoveCallback("t2", "A", 2)
    \/ StartStopThreaded("t2", "A")
    \/ StartUnregisterFrame("t2", "A")
    \/ \E t \in Threads :
        \/ AddSnapshotPush(t)
        \/ PortRecord(t)
        \/ WriteRawLock(t)
        \/ WriteRawCell(t)
        \/ WriteRawUnlock(t)
        \/ ReadRawLock(t)
        \/ ReadRawCell(t)
        \/ ReadRawUnlock(t)
        \/ NotifySteps(t)
        \/ RemoveLock(t)
        \/ RemoveJoin(t)
        \/ StopSteps(t)
        \/ Return(t)
    \/ Workers

\* Every thread inside an operation is scheduled, and so is every worker.
MixSteps(t) ==
    \/ AddSnapshotPush(t)
    \/ PortRecord(t)
    \/ WriteRawLock(t)
    \/ WriteRawCell(t)
    \/ WriteRawUnlock(t)
    \/ ReadRawLock(t)
    \/ ReadRawCell(t)
    \/ ReadRawUnlock(t)
    \/ NotifySteps(t)
    \/ RemoveLock(t)
    \/ RemoveJoin(t)
    \/ StopSteps(t)
FairMix ==
    /\ \A t \in Threads : WF_vars(MixSteps(t))
    /\ \A f \in Frames : \A id \in Ids :
          WF_vars(WorkerTake(f, id) \/ WorkerReturn(f, id) \/ WorkerExit(f, id))

SpecMix == InitSubscribed /\ [][NextMix]_vars /\ FairMix

\* ------------------------------------------------------------------ unplug
\* Ports connected to both frames.  Thread "t1" subscribes through port "P",
\* disconnects it and unsubscribes; thread "t2" publishes on the frames.
NextUnplug ==
    \/ \E n \in Names : StartSubscribeFrame("t1", "P", n)
    \/ \E n \in Names : StartSubscribeFrameDirect("t1", "P", n)
    \/ \E n \in Names : StartDisconnectFrame("t1", "P", n)
    \/ \E id \in 0..1 : \E g \in Frames \cup {Null} : StartUnsubscribeFrame("t1", "P", id, g)
    \/ \E n \in Names : StartNotify("t2", n)
    \/ \E t \in Threads :
        \/ AddSnapshotPush(t)
        \/ AddCallbackPush(t)
        \/ PortRecord(t)
        \/ NotifySteps(t)
        \/ RemoveLock(t)
        \/ RemoveJoin(t)
        \/ Return(t)
    \/ Workers

SpecUnplug == InitConnected /\ [][NextUnplug]_vars

\* ------------------------------------------------------------------ rebind
\* Frame f1 is on the bus as "A", with a Direct and a Threaded subscription, and
\* both ports are connected to it; frame f2 is on the bus as "B".  Thread "t1"
\* registers f2 as "A" and works on what the bus gives for "A"; thread "t2" works
\* on "A" through port "P".
NextRebind ==
    \/ StartRegisterFrame("t1", "A", "f2")
    \/ StartGetFrame("t1", "A")
    \/ StartNotify("t1", "A")
    \/ StartSetSignal("t1", "A", "timestamp", [type |-> "double", v |-> MaxVal])
    \/ StartConnectFrame("t2", "P", "A")
    \/ StartSetSignalToFrameWithPublish("t2", "P", "A", "value", IntAny(MaxVal))
    \/ StartSubscribeFrameDirect("t2", "P", "A")
    \/ StartGetSignalFromFrame("t2", "P", "A", "timestamp")
    \/ \E t \in Threads :
        \/ AddCallbackPush(t)
        \/ PortRecord(t)
        \/ NotifySteps(t)
        \/ Return(t)
    \/ WorkersRun

SpecRebind == InitSubscribed /\ [][NextRebind]_vars

\* ------------------------------------------------------------------ claims
\* A publish that ran to its end: notifyCallbacks returned to thread t.
Published(t) ==
    /\ th[t].pc = "ret"
    /\ \/ th[t].op = "notifyCallbacks"
       \/ th[t].op \in {"setSignalWithPublish", "setSignalToFrameWithPublish"}
          /\ th[t].res = "ok"

\* The worker thread of a subscription is still running.
WorkerAlive(w) == w.state \in {"waiting", "running"}

\* C1: for a Threaded subscription the snapshots handed to the callback, followed
\* by those still queued, are exactly the snapshots the publishes pushed, in push
\* order (no loss, no duplicate, no reordering); and once the worker has exited the
\* callback has run exactly once per publish made while the subscription was
\* active (before stop was set), in that order.
C1_ThreadedFifo ==
    \A f \in Frames : \A id \in DOMAIN wk[f] :
        LET w == wk[f][id] IN
        /\ w.dlv \o w.queue = w.enq
        /\ w.state = "exited" => w.dlv = SubSeq(w.enq, 1, w.mark)

C1_Witness ==
    \E id \in DOMAIN wk["f1"] :
        LET w == wk["f1"][id] IN
        /\ w.state = "exited"
        /\ Len(w.dlv) >= 2
        /\ w.dlv[1] # w.dlv[2]

\* C2: a publish never waits for a Threaded subscriber: no thread that is about to
\* take the subscription lock in notifyCallbacks finds it held by a thread that is
\* itself waiting to join a worker that has not exited.
C2_PublishNeverWaits ==
    \A t \in Threads :
        th[t].pc = "nf_lock" =>
            ~ \E u \in Threads :
                /\ cbMutex[th[t].f] = u
                /\ th[u].pc \in {"rm_join", "st_join"}
                /\ \E id \in DOMAIN wk[th[t].f] :
                      /\ wk[th[t].f][id].stop
                      /\ wk[th[t].f][id].state = "running"

\* C4: during a publish the Direct callbacks invoked so far are the first of the
\* Direct subscriptions in registration order, and when the publish returns every
\* one of them has been invoked exactly once, in that order.
C4_DirectOrder ==
    \A t \in Threads :
        /\ th[t].pc = "nf_loop" => IsPrefix(th[t].called, th[t].expect)
        /\ Published(t) => th[t].called = th[t].expect

C4_Witness ==
    \E t \in Threads :
        /\ Published(t)
        /\ Len(th[t].called) >= 2
        /\ Len(callbacks[th[t].f]) >= 3

\* C5: a worker thread that has not exited always has its entry in the
\* subscription list, and when removeCallback(id) has found the entry and
\* returned, the entry is gone and the worker of a Threaded subscription was told to
\* stop and has exited.
C5_RemoveJoins ==
    /\ \A f \in Frames : \A id \in DOMAIN wk[f] :
          WorkerAlive(wk[f][id]) => Registered(f, id)
    /\ \A t \in Threads :
          th[t].pc = "ret" /\ th[t].op = "removeCallback" /\ th[t].res = "removed" =>
              /\ ~Registered(th[t].f, th[t].id)
              /\ th[t].id \in DOMAIN wk[th[t].f] =>
                    /\ wk[th[t].f][th[t].id].stop
                    /\ wk[th[t].f][th[t].id].state = "exited"

C5_Witness ==
    \E t \in Threads :
        /\ th[t].pc = "ret"
        /\ th[t].op = "removeCallback"
        /\ th[t].id \in DOMAIN wk[th[t].f]
        /\ Len(wk[th[t].f][th[t].id].dlv) >= 1
        /\ wk[th[t].f][th[t].id].joins = 1

\* C8: the ids a frame hands out are 1, 2, 3, ... in the order of the fetch_add,
\* so each differs from every id handed out before, removed or not; the entries of
\* the subscription list carry pairwise distinct ids, and two subscribe calls in
\* progress at once hold different ids.
C8_IdsUnique ==
    \A f \in Frames :
        /\ \A i \in 1..Len(issued[f]) : issued[f][i] = i
        /\ \A i, j \in 1..Len(callbacks[f]) :
              i # j => callbacks[f][i].id # callbacks[f][j].id
        /\ EntryIds(f) \subseteq Range(issued[f])
        /\ \A t, u \in Threads :
              /\ t # u
              /\ th[t].pc \in {"ac_push", "as_push"}
              /\ th[u].pc \in {"ac_push", "as_push"}
              /\ th[t].f = f /\ th[u].f = f
              => th[t].id # th[u].id

C8_Witness ==
    /\ th["t1"].pc \in {"ac_push", "as_push"}
    /\ th["t2"].pc \in {"ac_push", "as_push"}
    /\ Len(issued["f1"]) >= 3
    /\ ~Registered("f1", 1)


\* C3: every subscription a port created and did not unsubscribe is still in its
\* frame's subscription list, and when unsubscribeFrame(id) has returned, the
\* subscription created by the call that returned this id is gone from the frame it
\* was created on.
C3_UnsubscribeExact ==
    /\ \A p \in Ports : \A x \in psubs[p] : Registered(x[1], x[2])
    /\ \A t \in Threads :
          /\ th[t].pc = "ret"
          /\ th[t].op = "unsubscribeFrame"
          /\ th[t].target # Null
          => ~Registered(th[t].target, th[t].id)

\* C6: when a frame has been destroyed, every worker thread of its Threaded
\* subscriptions was told to stop and has exited.
C6_DestroyedFrameHasNoWorker ==
    \A f \in Frames :
        fstate[f] = "dead" =>
            \A id \in DOMAIN wk[f] : wk[f][id].stop /\ wk[f][id].state = "exited"

C6_Witness ==
    /\ fstate["f1"] = "dead"
    /\ \E id \in DOMAIN wk["f1"] :
          /\ Registered("f1", id)
          /\ Len(wk["f1"][id].dlv) >= 1

\* C7: an unsubscribe repeated with an id that was already unsubscribed
\* (unsubscribeFrame), or whose entry was already erased (removeCallback), finds
\* nothing to remove and returns; and no worker thread is joined twice.
C7_SecondUnsubscribeNoOp ==
    /\ \A t \in Threads :
          th[t].dup =>
              /\ th[t].pc \in {"rm_lock", "ret"}
              /\ th[t].pc = "ret" => th[t].res = "absent"
    /\ \A f \in Frames : \A id \in DOMAIN wk[f] : wk[f][id].joins <= 1

\* C10: every step that reads the data block is taken by a thread that holds the
\* frame's reader/writer lock (shared or exclusive) at that moment, and every step
\* that writes it by a thread that holds the lock exclusively.
C10_DataUnderLock == \A t \in Threads : th[t].locked

\* C9: when a publish through a port has returned, every Direct subscription that
\* was on the frame's list when the publish took the list has been called once, every
\* Threaded one has been pushed one snapshot, and that snapshot carries the published
\* value when no other write came after the publisher's; and every worker, again
\* and again, has handed to its subscriber's callback every snapshot pushed on its
\* queue so far, so that each pushed snapshot is eventually received.
PushedIds(t) == [i \in 1..Len(th[t].pushed) |-> th[t].pushed[i][1]]
C9_NotifiedOnce ==
    \A t \in Threads :
        Published(t) =>
            /\ th[t].called = th[t].expect
            /\ PushedIds(t) = th[t].expectT
            /\ th[t].clean =>
                  \A i \in 1..Len(th[t].pushed) :
                      th[t].pushed[i][2][SignalCell(th[t].sig)] = th[t].val
C9_FanOut ==
    /\ []C9_NotifiedOnce
    /\ \A f \in Frames : \A id \in Ids :
          []<>(id \in DOMAIN wk[f] => wk[f][id].dlv = wk[f][id].enq)

C9_Witness ==
    \E t \in Threads :
        /\ Published(t)
        /\ th[t].port = "P"
        /\ th[t].clean
        /\ Len(th[t].called) >= 1
        /\ \E i \in 1..Len(th[t].pushed) :
              LET id == th[t].pushed[i][1] IN
              /\ <<th[t].f, id>> \in psubs["Q"]
              /\ wk[th[t].f][id].dlv # <<>>
              /\ wk[th[t].f][id].dlv[Len(wk[th[t].f][id].dlv)] = th[t].pushed[i][2]
              /\ th[t].pushed[i][2][SignalCell(th[t].sig)] = th[t].val

\* C11: no getSignal, serialize, readRawData block or snapshot taken by notify reads
\* a frame while another thread's writeRawData block has written some of its cells
\* and not all; and a thread that is outside the block of readRawData / writeRawData,
\* after the block returned or threw, holds the frame's lock in no mode.
C11_NoPartialWriteSeen ==
    \A t \in Threads :
        /\ ~th[t].torn
        /\ th[t].pc \notin {"rd_block", "wr_block"} =>
              \A f \in Frames : ~HoldsShared(t, f)

C11_Witness ==
    \E t \in Threads : \E u \in Threads \ {t} :
        /\ th[t].op = "writeRawData"
        /\ th[t].pc = "ret"
        /\ th[t].res = "threw"
        /\ th[t].idx = FrameSize
        /\ th[u].op \in {"readRawData", "getRawDataFromFrame"}
        /\ th[u].pc = "rd_block"
        /\ th[u].f = th[t].f
        /\ Len(th[u].buf) = FrameSize
        /\ th[u].buf = data[th[u].f]
        /\ th[u].buf # ZeroData

\* C12: when a set of signal s to v has completed and no write came after it, the
\* frame's data block is the block of before with v in the cell of s and the other
\* cells untouched; and a get of s made after it, through the frame or another port,
\* with no write since, returned v in the type of the field.
SetOps == {"setSignal", "setSignalWithPublish", "setSignalToFrame",
           "setSignalToFrameWithPublish"}
GetOps == {"getSignal", "getSignalFromFrame"}
SetDone(t) ==
    /\ th[t].pc = "ret"
    /\ th[t].op \in SetOps
    /\ th[t].res = "ok"
    /\ th[t].clean
GetDone(u, f, s) ==
    /\ th[u].pc = "ret"
    /\ th[u].op \in GetOps
    /\ th[u].f = f
    /\ th[u].sig = s
    /\ th[u].clean
C12_SetThenGet ==
    \A t \in Threads :
        SetDone(t) =>
            /\ th[t].val = th[t].arg.v
            /\ data[th[t].f] = [th[t].old EXCEPT ![SignalCell(th[t].sig)] = th[t].arg.v]
            /\ \A u \in Threads \ {t} :
                  GetDone(u, th[t].f, th[t].sig) =>
                      th[u].res = [type |-> SignalType(th[t].sig), v |-> th[t].arg.v]

C12_Witness ==
    \E t \in Threads : \E u \in Threads \ {t} :
        /\ SetDone(t)
        /\ th[t].op = "setSignalToFrame"
        /\ th[t].port = "P"
        /\ th[t].sig = "timestamp"
        /\ th[t].arg.v # 0
        /\ th[t].old[SignalCell("value")] # 0
        /\ GetDone(u, th[t].f, th[t].sig)
        /\ th[u].op = "getSignalFromFrame"
        /\ th[u].port = "Q"

\* A thread starts one of the frame's own signal operations in this step.
StartsSignalOp(t) ==
    /\ th[t].pc = "idle"
    /\ th'[t].op \in {"setSignal", "setSignalWithPublish", "getSignal"}

\* C13: setSignal, setSignalWithPublish and getSignal called with a name that is
\* not registered end with the UnknownSignal error at once, and the step changes
\* neither the data block nor any lock nor any subscriber's queue; no other call of
\* these ends with that error.
C13_UnknownSignal ==
    [][\A t \in Threads :
          StartsSignalOp(t) =>
              /\ th'[t].sig \notin SignalNames =>
                    /\ th'[t].err = "UnknownSignal"
                    /\ th'[t].pc = "ret"
                    /\ UNCHANGED <<data, rwlock, wk, cbMutex>>
              /\ th'[t].sig \in SignalNames => th'[t].err # "UnknownSignal"]_vars

C13_Witness ==
    \E t \in Threads : \E u \in Threads \ {t} :
        /\ th[t].pc = "ret"
        /\ th[t].op = "setSignalWithPublish"
        /\ th[t].err = "UnknownSignal"
        /\ th[t].old # ZeroData
        /\ data[th[t].f] = th[t].old
        /\ th[u].pc = "ret"
        /\ th[u].op = "getSignal"
        /\ th[u].err = "UnknownSignal"

\* C14: setSignal and setSignalWithPublish called for a registered signal with a
\* value of another type than the field's end with the TypeMismatch error at once;
\* the step writes nothing, and the frame's lock is as free after it as before.
C14_TypeMismatch ==
    [][\A t \in Threads :
          /\ StartsSignalOp(t)
          /\ th'[t].op # "getSignal"
          /\ th'[t].sig \in SignalNames
          => IF th'[t].arg.type # SignalType(th'[t].sig)
             THEN /\ th'[t].err = "TypeMismatch"
                  /\ th'[t].res = "TypeMismatch"
                  /\ th'[t].pc = "ret"
                  /\ UNCHANGED <<data, rwlock, wk, cbMutex>>
                  /\ rwlock'[th'[t].f].w # t
                  /\ t \notin rwlock'[th'[t].f].r
             ELSE th'[t].err = Null]_vars

C14_Witness ==
    \E t \in Threads :
        /\ th[t].pc = "ret"
        /\ th[t].op = "setSignalWithPublish"
        /\ th[t].err = "TypeMismatch"
        /\ th[t].sig = "timestamp"
        /\ th[t].arg.type = "int"
        /\ th[t].old # ZeroData
        /\ data[th[t].f] = th[t].old

\* C15: a thread in setSignal, setSignalToFrame, setRawDataToFrame or deserialize
\* never enters notifyCallbacks: none of its steps calls a Direct callback or
\* touches a subscriber's queue.  A WithPublish operation that wrote has, when it
\* returns, written what its plain twin writes (with no later write: the cell of the
\* signal, or the whole block) and has called every Direct subscription and pushed a
\* snapshot to every Threaded one.
PlainOps == {"setSignal", "setSignalToFrame", "setRawDataToFrame", "deserialize"}
PublishOps == {"setSignalWithPublish", "setSignalToFrameWithPublish",
               "setRawDataToFrameWithPublish", "deserializeWithPublish"}
SignalWriteOps == {"setSignal", "setSignalToFrame", "setSignalWithPublish",
                   "setSignalToFrameWithPublish"}
WroteAndReturned(t) ==
    /\ th[t].pc = "ret"
    /\ th[t].op \in PlainOps \cup PublishOps
    /\ th[t].clean
WrittenBlock(t) ==
    IF th[t].op \in SignalWriteOps
    THEN [th[t].old EXCEPT ![SignalCell(th[t].sig)] = th[t].val]
    ELSE th[t].buf
C15_PlainDoesNotNotify ==
    /\ [](\A t \in Threads :
            /\ th[t].op \in PlainOps =>
                  /\ th[t].pc \notin {"nf_lock", "nf_loop"}
                  /\ th[t].called = <<>>
                  /\ th[t].pushed = <<>>
            /\ WroteAndReturned(t) => data[th[t].f] = WrittenBlock(t)
            /\ th[t].pc = "ret" /\ th[t].op \in PublishOps /\ th[t].res \in {"ok", "true"} =>
                  /\ th[t].called = th[t].expect
                  /\ PushedIds(t) = th[t].expectT
                  /\ Len(th[t].called) + Len(th[t].pushed) = Len(callbacks[th[t].f]))
    /\ [][\A t \in Threads :
            th'[t].op \in PlainOps /\ th'[t] # th[t] => wk' = wk]_vars

C15_Witness ==
    \E t \in Threads :
        /\ WroteAndReturned(t)
        /\ th[t].op = "setRawDataToFrame"
        /\ th[t].buf # th[t].old
        /\ \E id \in DOMAIN wk[th[t].f] :
              /\ Registered(th[t].f, id)
              /\ wk[th[t].f][id].enq # <<>>
              /\ \A i \in 1..Len(wk[th[t].f][id].enq) : wk[th[t].f][id].enq[i] # th[t].buf

\* C16: deserialize called with a buffer of another length than the frame's size
\* ends with the SizeMismatch error at once, and the step changes neither the data
\* block nor the lock; with a buffer of the frame's size it raises nothing and the
\* data block becomes the buffer.
C16_SizeMismatch ==
    [][\A t \in Threads :
          th[t].pc = "idle" /\ th'[t].op = "deserialize" =>
              IF Len(th'[t].buf) # FrameSize
              THEN /\ th'[t].err = "SizeMismatch"
                   /\ th'[t].pc = "ret"
                   /\ UNCHANGED <<data, rwlock, wk, cbMutex>>
              ELSE /\ th'[t].err = Null
                   /\ data'[th'[t].f] = th'[t].buf]_vars

C16_Witness ==
    \E t \in Threads :
        /\ th[t].pc = "ret"
        /\ th[t].op = "deserialize"
        /\ th[t].err = "SizeMismatch"
        /\ Len(th[t].buf) < FrameSize
        /\ th[t].old # ZeroData
        /\ data[th[t].f] = th[t].old

\* C17: deserializeWithPublish returns: true, with the buffer written, when the
\* buffer has the frame's size; false, with nothing written, when it has not.
C17_ReturnsSizeMatch ==
    \A t \in Threads :
        th[t].pc = "ret" /\ th[t].op = "deserializeWithPublish" =>
            /\ th[t].err = Null
            /\ th[t].res = IF Len(th[t].buf) = FrameSize THEN "true" ELSE "false"
            /\ th[t].res = "false" /\ th[t].clean => data[th[t].f] = th[t].old

C19_ConnectFrame ==
    [][\A t \in Threads :
          th[t].pc = "idle" /\ th'[t].op = "connectFrame" =>
              LET p == th'[t].port
                  n == th'[t].name
              IN /\ pframes[p][n] # Null =>
                        th'[t].res = "true" /\ pframes' = pframes
                 /\ pframes[p][n] = Null /\ bus[n] = Null =>
                        th'[t].res = "false" /\ pframes' = pframes]_vars

C19_Witness ==
    \E t, u \in Threads :
        /\ th[t].op = "connectFrame" /\ th[t].pc = "ret"
        /\ th[t].dup /\ th[t].res = "true"
        /\ bus[th[t].name] = Null
        /\ th[u].op = "connectFrame" /\ th[u].pc = "ret"
        /\ ~th[u].dup /\ th[u].res = "false"

\* C20: setSignalToFrame, setSignalToFrameWithPublish, setRawDataToFrame,
\* setRawDataToFrameWithPublish and getRawDataFromFrame return false at once when
\* the port is not connected to the name, on the bus or not; the two signal-set
\* operations return false, and raise nothing, when the connected frame does not
\* know the signal or the value has another type than the field.  In each of these
\* cases the step changes no frame's data, queues nothing and takes no lock.
PortSetSignalOps == {"setSignalToFrame", "setSignalToFrameWithPublish"}
PortFailOps ==
    PortSetSignalOps
        \cup {"setRawDataToFrame", "setRawDataToFrameWithPublish", "getRawDataFromFrame"}

C20_PortReturnsFalse ==
    [][\A t \in Threads :
          th[t].pc = "idle" /\ th'[t].op \in PortFailOps =>
              LET p == th'[t].port
                  n == th'[t].name
                  s == th'[t].sig
                  rejected == \/ s \notin SignalNames
                              \/ th'[t].arg.type # SignalType(s)
              IN \/ pframes[p][n] = Null
                 \/ th'[t].op \in PortSetSignalOps /\ rejected
                 => /\ th'[t].res = "false"
                    /\ th'[t].pc = "ret"
                    /\ UNCHANGED <<data, wk, rwlock, cbMutex>>]_vars

C20_Witness ==
    \E t, u \in Threads :
        /\ th[t].op \in PortSetSignalOps /\ th[t].pc = "ret"
        /\ th[t].err = "TypeMismatch" /\ th[t].res = "false"
        /\ pframes[th[t].port][th[t].name] # Null
        /\ th[t].old # ZeroData /\ data[th[t].f] = th[t].old
        /\ th[u].op = "getRawDataFromFrame" /\ th[u].pc = "ret"
        /\ th[u].res = "false"
        /\ bus[th[u].name] # Null /\ pframes[th[u].port][th[u].name] = Null

\* The operation of thread t ended with an error raised to its caller.
Raised(t) == th[t].err # Null /\ th[t].res = th[t].err

\* C21: no operation of a port ends with an error raised to its caller; the get
\* operations too report an unconnected frame, an unknown signal or a T of another
\* type than the field through their result.
C21_PortNeverRaises ==
    \A t \in Threads : th[t].port # Null /\ th[t].pc = "ret" => ~Raised(t)

\* C22: disconnectFrame(name) on port p erases the entry of name in p's connection
\* table and nothing else: the other entries of p, the tables of the other ports,
\* the bus, the ports' callback tables, and every frame's data, subscription list
\* and workers are as before.
C22_DisconnectIsLocal ==
    [][\A t \in Threads :
          th[t].pc = "idle" /\ th'[t].op = "disconnectFrame" =>
              LET p == th'[t].port
                  n == th'[t].name
              IN /\ pframes'[p][n] = Null
                 /\ \A q \in Ports : \A m \in Names :
                       <<q, m>> # <<p, n>> => pframes'[q][m] = pframes[q][m]
                 /\ UNCHANGED <<bus, pcbmap, data, callbacks, wk, nextId>>]_vars

C22_Witness ==
    \E t \in Threads :
        /\ th[t].op = "disconnectFrame" /\ th[t].pc = "ret"
        /\ th[t].f # Null
        /\ pframes[th[t].port][th[t].name] = Null
        /\ \E q \in Ports \ {th[t].port} : pframes[q][th[t].name] = th[t].f
        /\ bus[th[t].name] = th[t].f
        /\ data[th[t].f] # ZeroData
        /\ callbacks[th[t].f] # <<>>

\* A port's connection table or callback table holds frame f.
PortHolds(f) ==
    \E p \in Ports :
        \/ \E n \in Names : pframes[p][n] = f
        \/ \E i \in DOMAIN pcbmap[p] : pcbmap[p][i] = f

\* C23: unregisterFrame(name) erases the bus entry of name and nothing else, and
\* getFrame(name) returns nullptr from then on; a frame a port's connection table
\* or callback table holds is never destroyed; and a set with publish, a get or a
\* subscribe a port starts on a frame it is connected to, after the bus dropped the
\* name, succeeds on that frame.
C23_UnregisterDoesNotCascade ==
    /\ [](\A f \in Frames : PortHolds(f) => fstate[f] = "live")
    /\ [](\A t \in Threads :
             th[t].op = "getFrame" /\ ~(th[t].res = "frame") =>
                 th[t].res = "nullptr" /\ th[t].err = Null)
    /\ [][\A t \in Threads :
             /\ th[t].pc = "idle" /\ th'[t].op = "unregisterFrame" =>
                   /\ bus' = [bus EXCEPT ![th'[t].name] = Null]
                   /\ UNCHANGED <<pframes, pcbmap, fstate, data, callbacks, wk>>
             /\ th[t].pc = "idle" /\ th'[t].op = "getFrame" /\ bus[th'[t].name] = Null =>
                   th'[t].res = "nullptr"
             /\ th[t].pc = "idle" /\ th'[t].port # Null /\ th'[t].name # Null
                /\ th'[t].op \in {"setSignalToFrameWithPublish", "getSignalFromFrame",
                                  "subscribeFrame"}
                /\ bus[th'[t].name] = Null
                /\ pframes[th'[t].port][th'[t].name] # Null =>
                   /\ th'[t].f = pframes[th'[t].port][th'[t].name]
                   /\ th'[t].err = Null
                   /\ th'[t].op = "setSignalToFrameWithPublish" =>
                         th'[t].res = "ok" /\ th'[t].pc = "nf_lock"
                   /\ th'[t].op = "subscribeFrame" => th'[t].pc = "as_push"]_vars

C23_Witness ==
    \E t \in Threads :
        /\ th[t].op = "setSignalToFrameWithPublish" /\ th[t].pc = "ret"
        /\ ~th[t].onBus
        /\ th[t].res = "ok"
        /\ bus[th[t].name] = Null
        /\ fstate[th[t].f] = "live"
        /\ data[th[t].f][SignalCell("value")] = 1
        /\ \E id \in DOMAIN wk[th[t].f] : wk[th[t].f][id].enq # <<>>
        /\ \E f \in Frames : fstate[f] = "dead"

\* C24: addCallback with the Threaded policy, its default, ends with the misuse
\* error as soon as it holds cb_mutex_: the step adds no entry to callbacks_,
\* starts no worker and leaves cb_mutex_ free; and callbacks_ never holds a
\* Threaded entry without a worker.
C24_AddCallbackThreadedFails ==
    /\ DefaultPolicy = Threaded
    /\ [](\A f \in Frames : ThreadedIds(f) \subseteq DOMAIN wk[f])
    /\ [][\A t \in Threads :
             th[t].pc = "ac_push" /\ th[t].policy = Threaded /\ th'[t] # th[t] =>
                 /\ th'[t].pc = "ret"
                 /\ th'[t].err = "MisuseError"
                 /\ th'[t].res = "logic_error"
                 /\ UNCHANGED <<callbacks, wk, cbMutex>>]_vars

C24_Witness ==
    \E t \in Threads :
        /\ th[t].op = "addCallback" /\ th[t].pc = "ret"
        /\ th[t].policy = Threaded
        /\ th[t].err = "MisuseError"
        /\ callbacks[th[t].f] # <<>>
        /\ th[t].id \notin EntryIds(th[t].f)
        /\ th[t].id \notin DOMAIN wk[th[t].f]

\* C25: the callback of a Threaded subscription is never invoked by a publishing
\* thread; an invocation starts in a step of the subscription's worker alone, and
\* only when the worker is not inside the callback; and a publisher that has
\* reached a Threaded entry can push its snapshot whether the worker is inside the
\* callback or not.
C25_OwnThreadOneAtATime ==
    /\ [](\A t \in Threads :
             /\ th[t].f # Null => \A i \in Range(th[t].called) : i \notin DOMAIN wk[th[t].f]
             /\ /\ th[t].pc = "nf_loop"
                /\ th[t].idx <= Len(callbacks[th[t].f])
                /\ NotifyEntry(th[t].f, th[t].idx).policy = Threaded
                /\ CanRead(th[t].f)
                => ENABLED NotifyStep(t))
    /\ [][\A f \in Frames : \A id \in DOMAIN wk[f] :
             id \in DOMAIN wk'[f] /\ wk'[f][id].dlv # wk[f][id].dlv =>
                 /\ wk[f][id].state = "waiting"
                 /\ wk'[f][id].state = "running"
                 /\ wk'[f][id].dlv = Append(wk[f][id].dlv, wk'[f][id].cur)
                 /\ th' = th]_vars

C25_Witness ==
    \E t \in Threads :
        /\ th[t].pc = "ret"
        /\ th[t].during
        /\ th[t].called # <<>>
        /\ \E id \in DOMAIN wk[th[t].f] :
              /\ wk[th[t].f][id].state = "running"
              /\ wk[th[t].f][id].queue # <<>>

C27_SnapshotFrozen ==
    [][\A f \in Frames : \A id \in DOMAIN wk[f] :
          LET w == wk[f][id]
              v == wk'[f][id]
          IN /\ data'[f] # data[f] =>
                   v.queue = w.queue /\ v.cur = w.cur /\ v.dlv = w.dlv
             /\ v.dlv # w.dlv =>
                   /\ v.cur = w.enq[Len(v.dlv)]
                   /\ v.dlv = SubSeq(w.enq, 1, Len(v.dlv))]_vars

C27_Witness ==
    \E id \in DOMAIN wk["f1"] :
        LET w == wk["f1"][id] IN
        /\ w.state = "running"
        /\ w.cur # ZeroData
        /\ w.cur # data["f1"]
        /\ w.queue # <<>>
        /\ w.queue[1] # w.cur

\* C28: the snapshots one notifyCallbacks call pushes on the queues of the
\* frame's Threaded subscriptions are all the same block.
C28_OneSnapshotPerPublish ==
    \A t \in Threads :
        \A i, j \in DOMAIN th[t].pushed : th[t].pushed[i][2] = th[t].pushed[j][2]

\* Thread t has returned from a removeCallback or stopThreadedCallbacks that
\* joined the worker of subscription id of frame f.
JoinedBy(t, f, id) ==
    /\ th[t].pc = "ret"
    /\ th[t].f = f
    /\ \/ th[t].op = "removeCallback" /\ th[t].res = "removed" /\ th[t].id = id
       \/ th[t].op = "stopThreadedCallbacks" /\ wk[f][id].stop

\* C29: a worker exits only from its wait, with the stop flag set and its queue
\* empty; and when removeCallback or stopThreadedCallbacks has returned, every
\* snapshot pushed on the queue before the stop flag was set has been handed to
\* the callback.
C29_ExitOnlyWhenDrained ==
    /\ [](\A t \in Threads : \A f \in Frames : \A id \in DOMAIN wk[f] :
             JoinedBy(t, f, id) =>
                 /\ wk[f][id].state = "exited"
                 /\ Len(wk[f][id].dlv) >= wk[f][id].mark
                 /\ SubSeq(wk[f][id].dlv, 1, wk[f][id].mark)
                        = SubSeq(wk[f][id].enq, 1, wk[f][id].mark))
    /\ [][\A f \in Frames : \A id \in DOMAIN wk[f] :
             wk[f][id].state # "exited" /\ wk'[f][id].state = "exited" =>
                 /\ wk[f][id].state = "waiting"
                 /\ wk[f][id].stop
                 /\ wk[f][id].queue = <<>>]_vars

C29_Witness ==
    \E t \in Threads :
        /\ th[t].op = "removeCallback"
        /\ JoinedBy(t, th[t].f, th[t].id)
        /\ th[t].id \in DOMAIN wk[th[t].f]
        /\ wk[th[t].f][th[t].id].left >= 2
        /\ wk[th[t].f][th[t].id].dlv = wk[th[t].f][th[t].id].enq

\* C30: a removeCallback or stopThreadedCallbacks that has been called returns.
C30_StopReturns ==
    \A t \in Threads :
        (th[t].op \in {"removeCallback", "stopThreadedCallbacks"} /\ th[t].pc # "ret")
            ~> (th[t].pc = "ret")

C30_Witness ==
    \E t \in Threads :
        /\ th[t].op = "stopThreadedCallbacks"
        /\ th[t].pc = "ret"
        /\ \E id \in DOMAIN wk[th[t].f] :
              /\ wk[th[t].f][id].state = "exited"
              /\ wk[th[t].f][id].left = 0
              /\ wk[th[t].f][id].joins = 1
              /\ wk[th[t].f][id].dlv # <<>>

\* C31: a step that shortens callbacks_ is the erase, by a removeCallback, of the
\* one entry with the id it was called with, the other entries staying in their
\* order; once the entry of an id is erased no publish calls or enqueues to that
\* id again; and a removeCallback that finds no entry with its id changes nothing.
C31_RemovedIsNeverNotified ==
    [][\A f \in Frames :
          /\ Len(callbacks'[f]) < Len(callbacks[f]) =>
                \E t \in Threads : \E i \in 1..Len(callbacks[f]) :
                    /\ th[t].op \in {"removeCallback", "unsubscribeFrame"}
                    /\ th[t].f = f
                    /\ th'[t].pc = "ret"
                    /\ callbacks[f][i].id = th[t].id
                    /\ callbacks'[f] = SubSeq(callbacks[f], 1, i - 1)
                                         \o SubSeq(callbacks[f], i + 1, Len(callbacks[f]))
          /\ \A id \in Ids :
                WasRemoved(f, id) =>
                    /\ id \in DOMAIN wk[f] => wk'[f][id].enq = wk[f][id].enq
                    /\ \A t \in Threads :
                          th'[t].f = f /\ Len(th'[t].called) > Len(th[t].called) =>
                              th'[t].called[Len(th'[t].called)] # id
          /\ \A t \in Threads :
                /\ th[t].pc = "rm_lock" /\ th[t].f = f /\ th'[t].pc # "rm_lock"
                /\ ~Registered(f, th[t].id)
                => /\ th'[t].pc = "ret"
                   /\ UNCHANGED <<callbacks, wk, cbMutex, data, nextId>>]_vars

C31_Witness ==
    \E t, u \in Threads :
        /\ th[t].pc = "ret" /\ th[t].op = "removeCallback" /\ th[t].res = "removed"
        /\ th[t].id \notin DOMAIN wk[th[t].f]
        /\ Published(u)
        /\ th[u].f = th[t].f
        /\ th[u].called # <<>>
        /\ \A i \in 1..Len(th[u].called) : th[u].called[i] > th[t].id

\* The WithPublish operation of thread t was given inputs its mutation rejects.
PublishFails(t) ==
    \/ /\ th[t].op \in {"setSignalWithPublish", "setSignalToFrameWithPublish"}
       /\ \/ th[t].f = Null
          \/ th[t].sig \notin SignalNames
          \/ th[t].arg.type # SignalType(th[t].sig)
    \/ /\ th[t].op = "deserializeWithPublish"
       /\ Len(th[t].buf) # FrameSize
    \/ /\ th[t].op = "setRawDataToFrameWithPublish"
       /\ th[t].f = Null \/ Len(th[t].buf) # FrameSize

\* C32: a WithPublish operation whose mutation fails (unknown signal, value of
\* another type, buffer of another length, frame not connected) never reaches
\* notifyCallbacks: it runs no Direct callback and enqueues no snapshot, and the
\* step in which it fails leaves every queue as it was.
C32_FailedPublishIsSilent ==
    /\ [](\A t \in Threads :
            PublishFails(t) =>
                /\ th[t].pc \notin {"nf_lock", "nf_loop", "cb_lock", "cb_in"}
                /\ th[t].called = <<>>
                /\ th[t].pushed = <<>>)
    /\ [][\A t \in Threads :
            PublishFails(t)' /\ th'[t].pc = "ret" /\ th[t].pc # "ret" =>
                UNCHANGED <<wk, callbacks, cbMutex>>]_vars

C32_Witness ==
    /\ th["t1"].pc = "ret" /\ th["t1"].op = "deserializeWithPublish"
    /\ Len(th["t1"].buf) # FrameSize
    /\ th["t2"].pc = "ret" /\ th["t2"].op = "setRawDataToFrameWithPublish"
    /\ th["t2"].f = "f1" /\ Len(th["t2"].buf) # FrameSize
    /\ th["t2"].res = "false"
    /\ wk["f1"][2].enq # <<>>

\* setRawDataToFrame and setRawDataToFrameWithPublish on a connected frame.
RawSetOps == {"setRawDataToFrame", "setRawDataToFrameWithPublish"}
RawSets(t) == th[t].op \in RawSetOps /\ th[t].f # Null

\* C33: setRawDataToFrame[WithPublish] with a size other than the frame's writes
\* no cell, changes the data block in none of its steps and returns false; with
\* the frame's size it holds the exclusive lock from its first cell to its last,
\* the block equals its buffer when it releases the lock, and it returns true.
C33_RawSizeChecked ==
    /\ [](\A t \in Threads :
            RawSets(t) =>
                /\ Len(th[t].buf) # FrameSize =>
                      /\ th[t].idx <= 1
                      /\ th[t].pc = "ret" => th[t].res = "false"
                /\ th[t].pc = "wr_block" =>
                      /\ HoldsExclusive(t, th[t].f)
                      /\ rwlock[th[t].f].r = {}
                      /\ Len(th[t].buf) = FrameSize =>
                            \A i \in 1..(th[t].idx - 1) : data[th[t].f][i] = th[t].buf[i]
                /\ Len(th[t].buf) = FrameSize
                   /\ th[t].pc \notin {"idle", "wr_lock", "wr_block"} =>
                      /\ th[t].res = "ok"
                      /\ th[t].locked)
    /\ [][\A t \in Threads :
            RawSets(t) /\ th'[t] # th[t] /\ th'[t].op = th[t].op =>
                /\ Len(th[t].buf) # FrameSize => data' = data
                /\ th[t].pc = "wr_block" /\ th'[t].pc # "wr_block"
                   /\ Len(th[t].buf) = FrameSize => data[th[t].f] = th[t].buf]_vars

C33_Witness ==
    \E t \in Threads :
        /\ th[t].pc = "ret" /\ th[t].op \in RawSetOps
        /\ th[t].f = "f1"
        /\ Len(th[t].buf) < FrameSize
        /\ th[t].res = "false"
        /\ th[t].old # ZeroData
        /\ data["f1"] = th[t].old

\* The number of the write a snapshot holds (see NextValue).
WriteOf(snap) == snap[SignalCell("value")]
Received(w) == w.dlv \o w.queue

\* C34: for each Threaded subscription the snapshots delivered and then those
\* queued hold writes in non-decreasing order, and every snapshot a
\* setSignalWithPublish has pushed holds that call's own write or a later one.
C34_SnapshotsInWriteOrder ==
    /\ \A f \in Frames : \A id \in DOMAIN wk[f] :
          \A i, j \in DOMAIN Received(wk[f][id]) :
              i < j => WriteOf(Received(wk[f][id])[i]) <= WriteOf(Received(wk[f][id])[j])
    /\ \A t \in Threads :
          th[t].op = "setSignalWithPublish" =>
              \A i \in DOMAIN th[t].pushed : WriteOf(th[t].pushed[i][2]) >= th[t].val

C34_Witness ==
    \E t \in Threads : \E id \in DOMAIN wk["f1"] :
        /\ Len(wk["f1"][id].dlv) >= 2
        /\ WriteOf(wk["f1"][id].dlv[1]) < WriteOf(wk["f1"][id].dlv[2])
        /\ Published(t)
        /\ th[t].pushed # <<>>
        /\ WriteOf(th[t].pushed[1][2]) > th[t].val

\* C35: the entries of callbacks_ are in strictly ascending order of callback id,
\* and so are the Direct callbacks one notifyCallbacks call has invoked.
C35_AscendingIds ==
    /\ \A f \in Frames : \A i, j \in DOMAIN callbacks[f] :
          i < j => callbacks[f][i].id < callbacks[f][j].id
    /\ \A t \in Threads : \A i, j \in DOMAIN th[t].called :
          i < j => th[t].called[i] < th[t].called[j]

\* C36: no removeCallback holds cb_mutex_ in the join of a worker whose callback
\* is waiting for cb_mutex_ in an operation it called on the frame.
C36_NoJoinOfWaitingCallback ==
    \A t \in Threads :
        th[t].pc = "rm_join" =>
            wk[th[t].f][th[t].id].state # "cb_lock"

\* The threads thread t waits for: the holder of the cb_mutex_ or of the
\* data_rwlock_ it is about to lock.
WaitsFor(t) ==
    LET f == th[t].f IN
    IF th[t].pc \in {"nf_lock", "rm_lock", "st_lock", "ac_push", "as_push"}
    THEN {cbMutex[f]} \ {Null}
    ELSE IF th[t].pc = "wr_lock" THEN ({rwlock[f].w} \ {Null}) \cup rwlock[f].r
    ELSE IF th[t].pc \in {"rd_lock", "nf_loop"} THEN {rwlock[f].w} \ {Null}
    ELSE {}

\* The id of the subscription whose worker thread t is joining.
JoinedId(t) ==
    IF th[t].pc = "rm_join" THEN th[t].id ELSE callbacks[th[t].f][th[t].idx].id

C38_StoppedEntriesStay ==
    /\ [](\A t \in Threads :
            th[t].pc = "ret" /\ th[t].op = "stopThreadedCallbacks" =>
                \A id \in ThreadedIds(th[t].f) : wk[th[t].f][id].state = "exited")
    /\ [][\A f \in Frames : \A id \in DOMAIN wk[f] :
            wk[f][id].state = "exited" =>
                /\ id \in DOMAIN wk'[f]
                /\ wk'[f][id].state = "exited"
                /\ wk'[f][id].dlv = wk[f][id].dlv
                /\ IsPrefix(wk[f][id].queue, wk'[f][id].queue)]_vars
    /\ [][\A t \in Threads :
            /\ th[t].op = "stopThreadedCallbacks" /\ th'[t].op = "stopThreadedCallbacks"
               => callbacks' = callbacks
            /\ /\ th[t].pc = "nf_loop" /\ th'[t].pc = "nf_loop"
               /\ th'[t].idx = th[t].idx + 1
               /\ callbacks[th[t].f][th[t].idx].policy = Threaded
               => LET f == th[t].f
                      id == callbacks[f][th[t].idx].id
                  IN /\ wk'[f][id].enq = Append(wk[f][id].enq, data[f])
                     /\ wk'[f][id].queue = Append(wk[f][id].queue, data[f])]_vars

C38_Witness ==
    /\ th["t2"].pc = "ret" /\ th["t2"].op = "stopThreadedCallbacks"
    /\ Registered("f1", 2)
    /\ wk["f1"][2].state = "exited"
    /\ wk["f1"][2].queue # <<>>
    /\ Len(wk["f1"][2].enq) > wk["f1"][2].mark
    /\ Published("t1")
    /\ th["t1"].pushed # <<>>

\* Port p is connected to frame f under no name.
Unplugged(p, f) == \A n \in Names : pframes[p][n] # f

\* C39: a subscription port p made on a frame it has since disconnected from is
\* still on the frame's list, of a live frame that p's callback table holds under
\* the subscription's id, and an unsubscribeFrame with that id has erased it when
\* it returns; a subscribe on a name the port is not connected to returns 0, takes
\* no id and changes no list, and a subscribe that made a subscription never
\* returns 0.
C39_UnpluggedSubscriptionsStay ==
    /\ [](\A p \in Ports : \A x \in psubs[p] :
            Unplugged(p, x[1]) =>
                /\ Registered(x[1], x[2])
                /\ fstate[x[1]] = "live"
                /\ MapFrame(p, x[2]) = x[1])
    /\ [](\A t \in Threads :
            /\ /\ th[t].pc = "ret" /\ th[t].op = "unsubscribeFrame"
               /\ th[t].target # Null
               /\ Unplugged(th[t].port, th[t].target)
               => ~Registered(th[t].target, th[t].id)
            /\ th[t].op \in {"subscribeFrame", "subscribeFrameDirect"}
               /\ th[t].pc = "ret" /\ th[t].f # Null
               => th[t].res # 0 /\ th[t].res = th[t].id)
    /\ [][\A t \in Threads :
            /\ th[t].pc = "idle"
            /\ th'[t].op \in {"subscribeFrame", "subscribeFrameDirect"}
            /\ pframes[th'[t].port][th'[t].name] = Null
            => /\ th'[t].pc = "ret"
               /\ th'[t].res = 0
               /\ UNCHANGED <<callbacks, nextId, wk, pcbmap>>]_vars

\* C40: registerFrame(name, f) makes f the bus entry of name, which getFrame then
\* returns, and changes no port's tables and no frame; connectFrame on a connected
\* name returns true and leaves the port's tables as they are, whatever the bus
\* holds; every operation a port starts on a name works on the frame of the port's
\* own table; and a step of an operation on one frame changes neither the data,
\* nor the subscription list, nor the queues of the other frame.
C40_RegisterDoesNotRebind ==
    /\ [][\A t \in Threads :
            th[t].pc = "idle" /\ th'[t].pc # "idle" =>
                LET p == th'[t].port
                    n == th'[t].name
                IN /\ th'[t].op = "registerFrame" =>
                         /\ bus'[n] = th'[t].target
                         /\ UNCHANGED <<pframes, pcbmap, data, callbacks, wk, nextId>>
                   /\ th'[t].op = "getFrame" => th'[t].f = bus[n]
                   /\ th'[t].op = "connectFrame" /\ pframes[p][n] # Null =>
                         th'[t].res = "true" /\ pframes' = pframes
                   /\ p # Null /\ th'[t].op # "connectFrame" => th'[t].f = pframes[p][n]]_vars
    /\ [][\A t \in Threads : \A f \in Frames :
            /\ th'[t] # th[t]
            /\ th'[t].f \notin {f, Null}
            /\ th'[t].op # "registerFrame"
            => /\ data'[f] = data[f]
               /\ callbacks'[f] = callbacks[f]
               /\ wk'[f] = wk[f]
               /\ nextId'[f] = nextId[f]]_vars

C40_Witness ==
    /\ bus["A"] = "f2"
    /\ pframes["P"]["A"] = "f1"
    /\ th["t1"].pc = "ret" /\ th["t1"].op = "getFrame" /\ th["t1"].f = "f2"
    /\ th["t2"].pc = "ret" /\ th["t2"].op = "setSignalToFrameWithPublish"
    /\ th["t2"].res = "ok" /\ th["t2"].f = "f1"
    /\ Len(th["t2"].called) = 2
    /\ data["f1"] # ZeroData
    /\ data["f2"] = ZeroData
    /\ callbacks["f2"] = <<>>

=============================================================================
